---- MODULE Spec2Model ----
(***************************************************************************)
(* Segment-tree family of qdot3/alds.                                      *)
(*                                                                         *)
(*   crates/segment_tree/src/normal.rs   SegmentTree          (seg)        *)
(*   crates/segment_tree/src/lazy.rs     LazySegmentTree      (lz)         *)
(*   crates/segment_tree/src/assign.rs   AssignSegmentTree    (asg)        *)
(*   crates/segment_tree/src/dynamic.rs  DynamicSegmentTree   (dyn)        *)
(*   crates/segment_tree/src/dual.rs     DualSegmentTree      (dual)       *)
(*   crates/seg_lib/src/lazy.rs          LazySegmentTree      (sl)         *)
(*   crates/seg_lib/src/normal.rs        SegmentTree          (sn)         *)
(*   src/range_query/segment_tree.rs     SegmentTree          (rq)         *)
(*                                                                         *)
(* Every structure is one record-valued variable holding the struct's      *)
(* fields under their source names.  Slices (Box<[T]>, Vec<T>) are         *)
(* functions on 0..len-1, as in Rust.  Each public method is an operator   *)
(* from the struct (and the arguments) to a record                         *)
(*        [t |-> the struct afterwards, ret |-> the value returned,        *)
(*         panic |-> TRUE iff the call panicked]                           *)
(* and one action per method applies it: the struct becomes c.t and        *)
(* `panicked` becomes c.panic (a panic ends the program: no action is      *)
(* enabled afterwards).  `arr` is the plain array that receives the same   *)
(* updates (the reference the trees are compared with) and `last_op` names *)
(* the method called last.  `run` is the position of a call that is       *)
(* followed one loop iteration at a time (SpecLoops); it is unused where   *)
(* a call is one step.                                                     *)
(***************************************************************************)
EXTENDS Integers, Sequences, FiniteSets, TLC

VARIABLES seg, lz, asg, dyn, dual, sl, sn, rq, arr, last_op, panicked, run

vars == <<seg, lz, asg, dyn, dual, sl, sn, rq, arr, last_op, panicked, run>>

(***************************************************************************)
(* Bounds of the model.                                                    *)
(***************************************************************************)
\* largest number of elements of a tree
MaxLen == 4

\* largest number of elements of an AssignSegmentTree and of a
\* DualSegmentTree, whose states are many more per element (the log of
\* assignments lazy_pow; one pending element per slot)
MaxLenAssign == 3

MaxLenDual == 3

(***************************************************************************)
(* usize helpers.                                                          *)
(***************************************************************************)
RECURSIVE Pow2(_)
Pow2(d) == IF d <= 0 THEN 1 ELSE 2 * Pow2(d - 1)

\* x >> d  and  x << d
Shr(x, d) == x \div Pow2(d)
Shl(x, d) == x * Pow2(d)

RECURSIVE npot_from(_, _)
npot_from(p, n) == IF p >= n THEN p ELSE npot_from(2 * p, n)

\* usize::next_power_of_two: the smallest power of two >= n (1 for n = 0)
next_power_of_two(n) == npot_from(1, n)

RECURSIVE trailing_zeros(_)
\* usize::trailing_zeros, for x > 0
trailing_zeros(x) == IF x % 2 = 1 THEN 0 ELSE 1 + trailing_zeros(x \div 2)

RECURSIVE ilog2(_)
\* usize::ilog2, for x > 0
ilog2(x) == IF x <= 1 THEN 0 ELSE 1 + ilog2(x \div 2)

RECURSIVE BitXor(_, _)
\* x ^ y
BitXor(x, y) ==
    IF x = 0 THEN y
    ELSE IF y = 0 THEN x
    ELSE ((x + y) % 2) + 2 * BitXor(x \div 2, y \div 2)

\* the slice with the elements of sequence s, indexed from 0
Slice(s) == [i \in 0..(Len(s) - 1) |-> s[i + 1]]

\* slice.len()
SliceLen(a) == Cardinality(DOMAIN a)

\* the elements l..r-1 of slice a, as a sequence
SubSlice(a, l, r) == [k \in 1..(r - l) |-> a[l + k - 1]]

(***************************************************************************)
(* The algebra the trees are instantiated with (traits Monoid, MonoidAct). *)
(*                                                                         *)
(* Monoid: words over Letters under concatenation, the free monoid, which  *)
(* is not commutative and in which the value of a range names every        *)
(* element of the range in order.  Products longer than Cap collapse to    *)
(* the absorbing element Top, which keeps the monoid finite (the quotient  *)
(* by the ideal of long words); no range of a tree is that long.           *)
(*                                                                         *)
(* MonoidAct: the affine maps x |-> a*x + b over Z_2 = Letters, acting on  *)
(* a word letter by letter.  They do not commute.  The pair                *)
(* (sum of the letters, length) of a word is the (sum, size) element of    *)
(* the range-affine-range-sum examples, and an affine act on that pair is  *)
(* the image of the letterwise act.                                        *)
(***************************************************************************)
Letters == {0, 1}

Cap == next_power_of_two(MaxLen)

Top == <<-1>>

\* Monoid::identity
identity == << >>

\* Monoid::binary_operation
binary_operation(x, y) ==
    IF x = Top \/ y = Top THEN Top
    ELSE IF Len(x) + Len(y) > Cap THEN Top
    ELSE x \o y

\* the acts <<a, b>> : x |-> a*x + b (mod 2)
Acts == Letters \X Letters

\* MonoidAct::identity
act_identity == <<1, 0>>

\* MonoidAct::composite: self after rhs
composite(f, g) == <<(f[1] * g[1]) % 2, (f[1] * g[2] + f[2]) % 2>>

\* MonoidAct::apply
apply(f, x) == IF x = Top THEN Top ELSE [k \in 1..Len(x) |-> (f[1] * x[k] + f[2]) % 2]

\* one-letter words: the values an element is given
Elems == {<<c>> : c \in Letters}

\* the acts given to range updates (all but the identity)
InActs == Acts \ {act_identity}

(***************************************************************************)
(* The plain array.                                                        *)
(***************************************************************************)
RECURSIVE Fold(_, _, _)
\* left-to-right combination of a[l..r-1]
Fold(a, l, r) == IF l >= r THEN identity ELSE binary_operation(a[l], Fold(a, l + 1, r))

\* a[l..r-1] <- f(a[i])
MapRange(a, l, r, f) == [i \in DOMAIN a |-> IF l <= i /\ i < r THEN apply(f, a[i]) ELSE a[i]]

\* a[l..r-1] <- v
FillRange(a, l, r, v) == [i \in DOMAIN a |-> IF l <= i /\ i < r THEN v ELSE a[i]]

\* all arrays of n elements
Arrays(n) == [0..(n - 1) -> Elems]

\* a variable of a structure the specification at hand does not run
Unused == << >>

\* the value returned by a call that returns ()
Unit == << >>

\* a call's outcome
Done(t, r) == [t |-> t, ret |-> r, panic |-> FALSE]
Panic(t) == [t |-> t, ret |-> Unit, panic |-> TRUE]

(***************************************************************************)
(* crates/segment_tree/src/normal.rs : SegmentTree                         *)
(***************************************************************************)
\* SegmentTree::new
Seg_new(n) ==
    LET buf_len == next_power_of_two(n)
    IN  [data |-> [i \in 0..(n + (n % 2) + buf_len - 1) |-> identity],
         len |-> n,
         buf_len |-> buf_len]

RECURSIVE Seg_from_loop(_, _, _, _)
\* for i in (1..buf_len).rev() { if i * 2 + 1 < len + buf_len { data[i] = .. } }
Seg_from_loop(data, i, len, buf_len) ==
    IF i < 1 THEN data
    ELSE Seg_from_loop(
            IF i * 2 + 1 < len + buf_len
            THEN [data EXCEPT ![i] = binary_operation(data[2 * i], data[2 * i + 1])]
            ELSE data,
            i - 1, len, buf_len)

\* impl From<Vec<T>> for SegmentTree<T>; values is a slice
Seg_from(values) ==
    IF SliceLen(values) = 0
    THEN [data |-> Slice(<< >>), len |-> 0, buf_len |-> 0]
    ELSE LET len == SliceLen(values)
             buf_len == next_power_of_two(len)
             data0 == [i \in 0..(buf_len + len + (len % 2) - 1) |->
                          IF i >= buf_len /\ i < buf_len + len
                          THEN values[i - buf_len] ELSE identity]
         IN  [data |-> Seg_from_loop(data0, buf_len - 1, len, buf_len),
              len |-> len,
              buf_len |-> buf_len]

\* SegmentTree::inner_index
Seg_inner_index(t, i) == t.buf_len + i

RECURSIVE Seg_update_loop(_, _)
\* while i > 1 { i = i / 2; data[i] = data[i * 2] * data[i * 2 + 1] }
Seg_update_loop(t, i) ==
    IF i > 1
    THEN LET p == i \div 2
         IN  IF (p * 2 + 1) \notin DOMAIN t.data THEN Panic(t)
             ELSE Seg_update_loop(
                     [t EXCEPT !.data[p] =
                         binary_operation(t.data[p * 2], t.data[p * 2 + 1])], p)
    ELSE Done(t, Unit)

\* update that overwrites the leaf and leaves the ancestors as they were
Seg_update_leaf_only(t, i, value) ==
    LET ii == Seg_inner_index(t, i)
    IN  IF ii \notin DOMAIN t.data THEN Panic(t)
        ELSE Done([t EXCEPT !.data[ii] = value], Unit)

\* SegmentTree::update
Seg_update(t, i, value) ==
    LET ii == Seg_inner_index(t, i)
    IN  IF ii \notin DOMAIN t.data THEN Panic(t)
        ELSE Seg_update_loop([t EXCEPT !.data[ii] = value], ii)

RECURSIVE Seg_fill_level(_, _, _)
\* for i in l..r { data[i] = data[i * 2] * data[i * 2 + 1] }
Seg_fill_level(t, i, r) ==
    IF i < r
    THEN IF (i * 2 + 1) \notin DOMAIN t.data THEN Panic(t)
         ELSE Seg_fill_level(
                 [t EXCEPT !.data[i] =
                     binary_operation(t.data[i * 2], t.data[i * 2 + 1])], i + 1, r)
    ELSE Done(t, Unit)

RECURSIVE Seg_fill_root(_, _)
\* while l > 1 { l /= 2; data[l] = data[l * 2] * data[l * 2 + 1] }
Seg_fill_root(t, l) ==
    IF l > 1
    THEN LET p == l \div 2
         IN  IF (p * 2 + 1) \notin DOMAIN t.data THEN Panic(t)
             ELSE Seg_fill_root(
                     [t EXCEPT !.data[p] =
                         binary_operation(t.data[p * 2], t.data[p * 2 + 1])], p)
    ELSE Done(t, Unit)

RECURSIVE Seg_fill_loop(_, _, _)
\* while l < r { for i in l..r { .. }; (l, r) = (l / 2, r / 2) }
\* assert_eq!(l, r); while l > 1 { .. }
Seg_fill_loop(t, l, r) ==
    IF l < r
    THEN LET c == Seg_fill_level(t, l, r)
         IN  IF c.panic THEN c ELSE Seg_fill_loop(c.t, l \div 2, r \div 2)
    ELSE IF l # r THEN Panic(t)
         ELSE Seg_fill_root(t, l)

\* SegmentTree::fill(lo..hi, value)
Seg_fill(t, lo, hi, value) ==
    LET l == Seg_inner_index(t, lo)
        r == Seg_inner_index(t, hi)
    IN  IF l > r \/ r > SliceLen(t.data) THEN Panic(t)
        ELSE Seg_fill_loop(
                [t EXCEPT !.data = [i \in DOMAIN t.data |->
                                       IF l <= i /\ i < r THEN value ELSE t.data[i]]],
                l \div 2, r \div 2)

RECURSIVE Seg_query_loop(_, _, _, _, _)
\* while l < r { .. }; res_l * res_r
Seg_query_loop(t, l, r, res_l, res_r) ==
    IF l < r
    THEN IF (l % 2 = 1 /\ l \notin DOMAIN t.data)
            \/ (r % 2 = 1 /\ (r - 1) \notin DOMAIN t.data)
         THEN Panic(t)
         ELSE LET res_l1 == IF l % 2 = 1 THEN binary_operation(res_l, t.data[l]) ELSE res_l
                  l1 == IF l % 2 = 1 THEN l + 1 ELSE l
                  r1 == IF r % 2 = 1 THEN r - 1 ELSE r
                  res_r1 == IF r % 2 = 1 THEN binary_operation(t.data[r1], res_r) ELSE res_r
              IN  Seg_query_loop(t, l1 \div 2, r1 \div 2, res_l1, res_r1)
    ELSE Done(t, binary_operation(res_l, res_r))

\* SegmentTree::query(lo..hi)
Seg_query(t, lo, hi) ==
    LET l == Seg_inner_index(t, lo)
        r == Seg_inner_index(t, hi)
    IN  IF l = t.buf_len /\ r = SliceLen(t.data)
        THEN IF 1 \notin DOMAIN t.data THEN Panic(t)
             ELSE Done(t, binary_operation(identity, t.data[1]))
        ELSE Seg_query_loop(t, l, r, identity, identity)

(***************************************************************************)
(* Specification SpecSeg: SegmentTree built by from, then in-bounds        *)
(* update and query calls.                                                 *)
(***************************************************************************)
InitSeg ==
    /\ \E n \in 1..MaxLen : \E values \in Arrays(n) :
          /\ seg = Seg_from(values)
          /\ arr = values
    /\ lz = Unused /\ asg = Unused /\ dyn = Unused /\ dual = Unused
    /\ sl = Unused /\ sn = Unused
    /\ last_op = "from"
    /\ panicked = FALSE
    /\ run = Unused
    /\ rq = Unused

\* the other structures stay as they are
OnlySeg == UNCHANGED <<lz, asg, dyn, dual, sl, sn, run, rq>>

SegUpdate ==
    /\ ~panicked
    /\ \E i \in 0..(seg.len - 1) : \E v \in Elems :
          LET c == Seg_update(seg, i, v)
          IN  /\ seg' = c.t
              /\ panicked' = c.panic
              /\ arr' = [arr EXCEPT ![i] = v]
    /\ last_op' = "update"
    /\ OnlySeg

SegQuery ==
    /\ ~panicked
    /\ \E l \in 0..seg.len : \E r \in l..seg.len :
          LET c == Seg_query(seg, l, r)
          IN  /\ seg' = c.t
              /\ panicked' = c.panic
    /\ last_op' = "query"
    /\ UNCHANGED arr
    /\ OnlySeg

NextSeg == SegUpdate \/ SegQuery

SpecSeg == InitSeg /\ [][NextSeg]_vars

\* C4: every in-bounds query returns the left-to-right combination of the
\* plain array that received the same updates, and never panics.
C4_QueryRefinesArray ==
    /\ ~panicked
    /\ \A l \in 0..seg.len : \A r \in l..seg.len :
          LET c == Seg_query(seg, l, r)
          IN  ~c.panic /\ c.ret = Fold(arr, l, r)

\* C4 is reached: on a tree of three elements (odd, not a power of two) an
\* update has just stored 1 at index 0 and the query of the whole array
\* returns the elements in order.
C4_Witness ==
    /\ last_op = "update"
    /\ seg.len = 3
    /\ arr = Slice(<< <<1>>, <<0>>, <<0>> >>)
    /\ Seg_query(seg, 0, 3).ret = <<1, 0, 0>>
    /\ Seg_query(seg, 0, 2).ret = <<1, 0>>

\* C11: after from and after every update, every internal node i
\* (1 <= i < buf_len) whose two children lie inside data stores
\* data[2i] * data[2i+1].
C11_NodeIsChildrenProduct ==
    \A i \in 1..(seg.buf_len - 1) :
        (2 * i + 1) \in DOMAIN seg.data =>
            seg.data[i] = binary_operation(seg.data[2 * i], seg.data[2 * i + 1])

(***************************************************************************)
(* crates/segment_tree/src/lazy.rs : LazySegmentTree                       *)
(***************************************************************************)
RECURSIVE Lazy_from_loop(_, _)
\* for i in (1..data.len() / 2).rev() { data[i] = data[i * 2] * data[i * 2 + 1] }
Lazy_from_loop(data, i) ==
    IF i < 1 THEN data
    ELSE Lazy_from_loop(
            [data EXCEPT ![i] = binary_operation(data[i * 2], data[i * 2 + 1])], i - 1)

\* impl From<Vec<Arg>> for LazySegmentTree<F>; values is a slice
Lazy_from(values) ==
    LET len == SliceLen(values)
        buf_len == next_power_of_two(len)
        height == trailing_zeros(buf_len) + 1
        data0 == [i \in 0..(buf_len + len + (len % 2) - 1) |->
                     IF i >= buf_len /\ i < buf_len + len
                     THEN values[i - buf_len] ELSE identity]
    IN  [data |-> Lazy_from_loop(data0, (SliceLen(data0) \div 2) - 1),
         lazy |-> [i \in 0..(buf_len - 1) |-> act_identity],
         len |-> len,
         buf_len |-> buf_len,
         height |-> height]

\* LazySegmentTree::inner_index
Lazy_inner_index(t, i) == t.buf_len + i

\* LazySegmentTree::update_node
Lazy_update_node(t, i) ==
    [t EXCEPT !.data[i] = binary_operation(t.data[i * 2], t.data[i * 2 + 1])]

\* apply_action with the composition the other way round (lazy[i] after action)
Lazy_apply_action_swapped(t, i, action) ==
    LET t1 == [t EXCEPT !.data[i] = apply(action, t.data[i])]
    IN  IF i < t.buf_len
        THEN [t1 EXCEPT !.lazy[i] = composite(t.lazy[i], action)]
        ELSE t1

\* LazySegmentTree::apply_action
Lazy_apply_action(t, i, action) ==
    LET t1 == [t EXCEPT !.data[i] = apply(action, t.data[i])]
    IN  IF i < t.buf_len
        THEN [t1 EXCEPT !.lazy[i] = composite(action, t.lazy[i])]
        ELSE t1

\* apply_pending_action that pushes lazy[i] down and keeps it on node i
Lazy_apply_pending_action_kept(t, i) ==
    LET t1 == Lazy_apply_action(t, i * 2, t.lazy[i])
        t2 == Lazy_apply_action(t1, i * 2 + 1, t.lazy[i])
    IN  t2

\* LazySegmentTree::apply_pending_action
Lazy_apply_pending_action(t, i) ==
    LET t1 == Lazy_apply_action(t, i * 2, t.lazy[i])
        t2 == Lazy_apply_action(t1, i * 2 + 1, t.lazy[i])
    IN  [t2 EXCEPT !.lazy[i] = act_identity]

RECURSIVE Lazy_get_loop(_, _, _)
\* for d in (1..=height).rev() { apply_pending_action(i >> d) }
Lazy_get_loop(t, i, d) ==
    IF d < 1 THEN t
    ELSE Lazy_get_loop(Lazy_apply_pending_action(t, Shr(i, d)), i, d - 1)

\* LazySegmentTree::get
Lazy_get(t, i) ==
    LET ii == Lazy_inner_index(t, i)
        t1 == Lazy_get_loop(t, ii, t.height)
    IN  Done(t1, t1.data[ii])

RECURSIVE Lazy_set_loop(_, _, _)
\* for d in 1..=height { update_node(i >> d) }
Lazy_set_loop(t, i, d) ==
    IF d > t.height THEN t
    ELSE Lazy_set_loop(Lazy_update_node(t, Shr(i, d)), i, d + 1)

\* LazySegmentTree::set
Lazy_set(t, i, value) ==
    LET t1 == Lazy_get(t, i).t
        ii == Lazy_inner_index(t, i)
    IN  Done(Lazy_set_loop([t1 EXCEPT !.data[ii] = value], ii, 1), Unit)

RECURSIVE Lazy_apply_propagate_left_only(_, _, _, _)
\* the propagation pass of apply that forgets the ancestors of r - 1
Lazy_apply_propagate_left_only(t, l, r, d) ==
    IF d < 1 THEN t
    ELSE LET t1 == IF Shl(Shr(l, d), d) # l
                   THEN Lazy_apply_pending_action(t, Shr(l, d)) ELSE t
         IN  Lazy_apply_propagate_left_only(t1, l, r, d - 1)

RECURSIVE Lazy_apply_propagate(_, _, _, _)
\* apply: for d in (1..=height).rev() { propagate the ancestors of l and of r - 1 }
Lazy_apply_propagate(t, l, r, d) ==
    IF d < 1 THEN t
    ELSE LET t1 == IF Shl(Shr(l, d), d) # l
                   THEN Lazy_apply_pending_action(t, Shr(l, d)) ELSE t
             t2 == IF Shl(Shr(r, d), d) # r
                   THEN Lazy_apply_pending_action(t1, Shr(r - 1, d)) ELSE t1
         IN  Lazy_apply_propagate(t2, l, r, d - 1)

RECURSIVE Lazy_apply_loop(_, _, _, _)
\* apply: while l < r { .. apply_action(l, action) .. apply_action(r, action) .. }
Lazy_apply_loop(t, l, r, action) ==
    IF l < r
    THEN LET t1 == IF l % 2 = 1 THEN Lazy_apply_action(t, l, action) ELSE t
             l1 == IF l % 2 = 1 THEN l + 1 ELSE l
             r1 == IF r % 2 = 1 THEN r - 1 ELSE r
             t2 == IF r % 2 = 1 THEN Lazy_apply_action(t1, r1, action) ELSE t1
         IN  Lazy_apply_loop(t2, l1 \div 2, r1 \div 2, action)
    ELSE t

RECURSIVE Lazy_apply_update(_, _, _, _)
\* apply: for d in 1..=height { update the ancestors of l and of r - 1 }
Lazy_apply_update(t, l, r, d) ==
    IF d > t.height THEN t
    ELSE LET t1 == IF Shl(Shr(l, d), d) # l
                   THEN Lazy_update_node(t, Shr(l, d)) ELSE t
             t2 == IF Shl(Shr(r, d), d) # r
                   THEN Lazy_update_node(t1, Shr(r - 1, d)) ELSE t1
         IN  Lazy_apply_update(t2, l, r, d + 1)

\* LazySegmentTree::apply(lo..hi, action)
Lazy_apply(t, lo, hi, action) ==
    LET l == Lazy_inner_index(t, lo)
        r == Lazy_inner_index(t, hi)
        t1 == Lazy_apply_propagate(t, l, r, t.height)
        t2 == Lazy_apply_loop(t1, l, r, action)
    IN  Done(Lazy_apply_update(t2, l, r, 1), Unit)

RECURSIVE Lazy_apply_all_down_discarding(_, _)
\* the first pass of apply_all clearing the pending acts without pushing them
Lazy_apply_all_down_discarding(t, i) ==
    IF i >= SliceLen(t.data) \div 2 THEN t
    ELSE Lazy_apply_all_down_discarding([t EXCEPT !.lazy[i] = act_identity], i + 1)

RECURSIVE Lazy_apply_all_down(_, _)
\* for i in 1..data.len() / 2 { apply_pending_action(i) }
Lazy_apply_all_down(t, i) ==
    IF i >= SliceLen(t.data) \div 2 THEN t
    ELSE Lazy_apply_all_down(Lazy_apply_pending_action(t, i), i + 1)

RECURSIVE Lazy_apply_all_up(_, _)
\* for i in (1..data.len() / 2).rev() { update_node(i) }
Lazy_apply_all_up(t, i) ==
    IF i < 1 THEN t
    ELSE Lazy_apply_all_up(Lazy_update_node(t, i), i - 1)

\* LazySegmentTree::apply_all
Lazy_apply_all(t) ==
    Done(Lazy_apply_all_up(Lazy_apply_all_down(t, 1), (SliceLen(t.data) \div 2) - 1), Unit)

RECURSIVE Lazy_eval_propagate(_, _, _, _)
\* eval: for d in (1..=height).rev() { propagate l >> d and r >> d }
Lazy_eval_propagate(t, l, r, d) ==
    IF d < 1 THEN t
    ELSE LET t1 == IF Shl(Shr(l, d), d) # l
                   THEN Lazy_apply_pending_action(t, Shr(l, d)) ELSE t
             t2 == IF Shl(Shr(r, d), d) # r
                   THEN Lazy_apply_pending_action(t1, Shr(r, d)) ELSE t1
         IN  Lazy_eval_propagate(t2, l, r, d - 1)

RECURSIVE Lazy_eval_loop(_, _, _, _, _)
\* eval: while l < r { .. }; res_l * res_r
Lazy_eval_loop(t, l, r, res_l, res_r) ==
    IF l < r
    THEN LET res_l1 == IF l % 2 = 1 THEN binary_operation(res_l, t.data[l]) ELSE res_l
             l1 == IF l % 2 = 1 THEN l + 1 ELSE l
             r1 == IF r % 2 = 1 THEN r - 1 ELSE r
             res_r1 == IF r % 2 = 1 THEN binary_operation(t.data[r1], res_r) ELSE res_r
         IN  Lazy_eval_loop(t, l1 \div 2, r1 \div 2, res_l1, res_r1)
    ELSE binary_operation(res_l, res_r)

\* LazySegmentTree::eval(lo..hi)
Lazy_eval(t, lo, hi) ==
    LET l == Lazy_inner_index(t, lo)
        r == Lazy_inner_index(t, hi)
    IN  IF l >= r THEN Done(t, identity)
        ELSE LET t1 == Lazy_eval_propagate(t, l, r, t.height)
             IN  Done(t1, Lazy_eval_loop(t1, l, r, identity, identity))

(***************************************************************************)
(* Specification SpecLazy: LazySegmentTree built by from, then in-bounds   *)
(* apply, set, get, eval and apply_all calls.                              *)
(***************************************************************************)
InitLazy ==
    /\ \E n \in 1..MaxLen : \E values \in Arrays(n) :
          /\ lz = Lazy_from(values)
          /\ arr = values
    /\ seg = Unused /\ asg = Unused /\ dyn = Unused /\ dual = Unused
    /\ sl = Unused /\ sn = Unused
    /\ last_op = "from"
    /\ panicked = FALSE
    /\ run = Unused
    /\ rq = Unused

OnlyLazy == UNCHANGED <<seg, asg, dyn, dual, sl, sn, panicked, run, rq>>

LazyApply ==
    /\ \E l \in 0..lz.len : \E r \in l..lz.len : \E f \in InActs :
          LET c == Lazy_apply(lz, l, r, f)
          IN  /\ lz' = c.t
              /\ arr' = MapRange(arr, l, r, f)
    /\ last_op' = "apply"
    /\ OnlyLazy

LazySet ==
    /\ \E i \in 0..(lz.len - 1) : \E v \in Elems :
          LET c == Lazy_set(lz, i, v)
          IN  /\ lz' = c.t
              /\ arr' = [arr EXCEPT ![i] = v]
    /\ last_op' = "set"
    /\ OnlyLazy

LazyGet ==
    /\ \E i \in 0..(lz.len - 1) :
          LET c == Lazy_get(lz, i)
          IN  /\ lz' = c.t
    /\ last_op' = "get"
    /\ UNCHANGED arr
    /\ OnlyLazy

LazyEval ==
    /\ \E l \in 0..lz.len : \E r \in l..lz.len :
          LET c == Lazy_eval(lz, l, r)
          IN  /\ lz' = c.t
    /\ last_op' = "eval"
    /\ UNCHANGED arr
    /\ OnlyLazy

LazyApplyAll ==
    /\ LET c == Lazy_apply_all(lz)
       IN  /\ lz' = c.t
    /\ last_op' = "apply_all"
    /\ UNCHANGED arr
    /\ OnlyLazy

NextLazy == LazyApply \/ LazySet \/ LazyGet \/ LazyEval \/ LazyApplyAll

SpecLazy == InitLazy /\ [][NextLazy]_vars

(***************************************************************************)
(* Specification SpecLazySmall: the same calls on trees of at most         *)
(* MaxLenSmall elements, for the properties that run whole operations on   *)
(* every reachable tree.                                                   *)
(***************************************************************************)
\* the largest LazySegmentTree built in SpecLazySmall and SpecPropagate
MaxLenSmall == 3

InitLazySmall ==
    /\ \E n \in 1..MaxLenSmall : \E values \in Arrays(n) :
          /\ lz = Lazy_from(values)
          /\ arr = values
    /\ seg = Unused /\ asg = Unused /\ dyn = Unused /\ dual = Unused
    /\ sl = Unused /\ sn = Unused
    /\ last_op = "from"
    /\ panicked = FALSE
    /\ run = Unused
    /\ rq = Unused

SpecLazySmall == InitLazySmall /\ [][NextLazy]_vars

\* C1: in every state reached by in-bounds apply, set, get, eval and apply_all
\* calls, every get(i) returns element i and every eval(l..r) returns the
\* left-to-right combination of elements l..r-1 of the plain array on which
\* apply maps the act over the range and set overwrites one element.
C1_LazyRefinesArray ==
    /\ \A i \in 0..(lz.len - 1) : Lazy_get(lz, i).ret = arr[i]
    /\ \A l \in 0..lz.len : \A r \in l..lz.len : Lazy_eval(lz, l, r).ret = Fold(arr, l, r)

\* C1 is reached: an eval has just returned on a tree of four elements that
\* started as [0, 0, 0, 0] and had the affine act x |-> 1 mapped over 0..2,
\* the act still pending on the node above elements 0 and 1.
C1_Witness ==
    /\ last_op = "eval"
    /\ lz.len = 4
    /\ lz.lazy[2] = <<0, 1>>
    /\ arr = Slice(<< <<1>>, <<1>>, <<0>>, <<0>> >>)
    /\ Lazy_eval(lz, 0, 4).ret = <<1, 1, 0, 0>>

\* C12: after from and after every public operation, every internal node
\* i >= 1 whose two children lie inside data satisfies
\* data[i] = lazy[i].apply(data[2i] * data[2i+1]).
C12_NodeReflectsOwnAct ==
    \A i \in 1..(lz.buf_len - 1) :
        (2 * i + 1) \in DOMAIN lz.data =>
            lz.data[i] = apply(lz.lazy[i],
                               binary_operation(lz.data[2 * i], lz.data[2 * i + 1]))

\* C12 is reached: an apply has just returned and left the act x |-> x + 1
\* pending on node 2 of a tree of four elements, whose stored aggregate
\* differs from the product of its children by exactly that act.
C12_Witness ==
    /\ last_op = "apply"
    /\ lz.len = 4
    /\ lz.lazy[2] = <<1, 1>>
    /\ lz.data[2] = <<1, 0>>
    /\ binary_operation(lz.data[4], lz.data[5]) = <<0, 1>>
    /\ lz.lazy[1] = act_identity
    /\ lz.data[1] = binary_operation(lz.data[2], lz.data[3])

\* C23: apply_all changes no observable value: every get(i) and every
\* eval(l..r) issued after it returns what it returns without the call (the
\* element, or the combination of elements, of the plain array), and after
\* the call every pending slot lazy[i], 1 <= i < data.len() / 2, is the
\* identity act.
C23_ApplyAllKeepsValues ==
    LET t2 == Lazy_apply_all(lz).t
    IN  /\ \A i \in 0..(lz.len - 1) :
              /\ Lazy_get(t2, i).ret = Lazy_get(lz, i).ret
              /\ Lazy_get(t2, i).ret = arr[i]
        /\ \A l \in 0..lz.len : \A r \in l..lz.len :
              /\ Lazy_eval(t2, l, r).ret = Lazy_eval(lz, l, r).ret
              /\ Lazy_eval(t2, l, r).ret = Fold(arr, l, r)
        /\ \A i \in 1..((SliceLen(lz.data) \div 2) - 1) : t2.lazy[i] = act_identity

\* C23 is reached: an apply has left the act x |-> x + 1 pending on node 2
\* of a tree of three elements whose leaf 4 still holds the old value;
\* apply_all brings the act to leaf 4 and empties the slot.
C23_Witness ==
    /\ last_op = "apply"
    /\ lz.len = 3
    /\ lz.lazy[2] = <<1, 1>>
    /\ lz.data[4] = <<0>>
    /\ arr[0] = <<1>>
    /\ LET t2 == Lazy_apply_all(lz).t
       IN  /\ t2.lazy[2] = act_identity
           /\ t2.data[4] = <<1>>
           /\ Lazy_get(t2, 0).ret = <<1>>

(***************************************************************************)
(* crates/segment_tree/src/assign.rs : AssignSegmentTree                   *)
(*                                                                         *)
(* F is the word monoid: F::composite is concatenation, so the composite   *)
(* of a range names its elements in order and act^(2^k) is a word of 2^k   *)
(* letters.                                                                *)
(***************************************************************************)
\* AssignSegmentTree::NULL_ID = !0
NULL_ID == -1

\* Vec::push
Push(v, x) == [i \in 0..SliceLen(v) |-> IF i < SliceLen(v) THEN v[i] ELSE x]

\* AssignSegmentTree::inner_index
Assign_inner_index(t, i) == SliceLen(t.lazy_map) + i

\* AssignSegmentTree::update
Assign_update(t, i) ==
    [t EXCEPT !.data[i] = binary_operation(t.data[i * 2], t.data[i * 2 + 1])]

RECURSIVE Assign_update_all_loop(_, _)
\* for i in (1..data.len() >> 1).rev() { update(i) }
Assign_update_all_loop(t, i) ==
    IF i < 1 THEN t ELSE Assign_update_all_loop(Assign_update(t, i), i - 1)

\* AssignSegmentTree::update_all
Assign_update_all(t) == Assign_update_all_loop(t, (SliceLen(t.data) \div 2) - 1)

\* AssignSegmentTree::push
Assign_push(t, i, act_id) ==
    IF act_id # NULL_ID
    THEN LET t1 == [t EXCEPT !.data[i] = t.lazy_pow[act_id]]
         IN  IF i \in DOMAIN t.lazy_map
             THEN [t1 EXCEPT !.lazy_map[i] = act_id]
             ELSE t1
    ELSE t

\* propagate handing the children the parent's own power (act_id, not act_id - 1)
Assign_propagate_same_pow(t, i) ==
    LET act_id == t.lazy_map[i]
        t1 == [t EXCEPT !.lazy_map[i] = NULL_ID]
    IN  IF act_id # NULL_ID
        THEN Assign_push(Assign_push(t1, i * 2, act_id), i * 2 + 1, act_id)
        ELSE t1

\* AssignSegmentTree::propagate
Assign_propagate(t, i) ==
    LET act_id == t.lazy_map[i]
        t1 == [t EXCEPT !.lazy_map[i] = NULL_ID]
    IN  IF act_id # NULL_ID
        THEN Assign_push(Assign_push(t1, i * 2, act_id - 1), i * 2 + 1, act_id - 1)
        ELSE t1

RECURSIVE Assign_propagate_all_loop(_, _)
\* for i in 1..data.len() >> 1 { propagate(i) }
Assign_propagate_all_loop(t, i) ==
    IF i >= SliceLen(t.data) \div 2 THEN t
    ELSE Assign_propagate_all_loop(Assign_propagate(t, i), i + 1)

\* AssignSegmentTree::propagate_all
Assign_propagate_all(t) == Assign_propagate_all_loop(t, 1)

\* impl From<Vec<F>> for AssignSegmentTree<F>; values is a slice
Assign_from(values) ==
    LET len == SliceLen(values)
        buf_len == next_power_of_two(len)
        data == [i \in 0..(buf_len + len + (len % 2) - 1) |->
                    IF i >= buf_len /\ i < buf_len + len
                    THEN values[i - buf_len] ELSE identity]
    IN  Assign_update_all(
            [data |-> data,
             lazy_map |-> [i \in 0..(buf_len - 1) |-> NULL_ID],
             lazy_pow |-> Slice(<< >>),
             len |-> len,
             height |-> trailing_zeros(buf_len)])

RECURSIVE Assign_path_propagate(_, _, _)
\* for d in (1..=height).rev() { propagate(i >> d) }
Assign_path_propagate(t, i, d) ==
    IF d < 1 THEN t
    ELSE Assign_path_propagate(Assign_propagate(t, Shr(i, d)), i, d - 1)

\* AssignSegmentTree::get
Assign_get(t, i) ==
    LET ii == Assign_inner_index(t, i)
        t1 == Assign_path_propagate(t, ii, t.height)
    IN  Done(t1, t1.data[ii])

RECURSIVE Assign_propagate_common(_, _, _, _, _)
\* for d in (each + 1..=height).rev() { if .. { propagate(l >> d) } }
Assign_propagate_common(t, l, r, d, each) ==
    IF d <= each THEN t
    ELSE Assign_propagate_common(
            IF Shl(Shr(l, d), d) # l \/ Shl(Shr(r, d), d) # r
            THEN Assign_propagate(t, Shr(l, d)) ELSE t,
            l, r, d - 1, each)

RECURSIVE Assign_propagate_each(_, _, _, _)
\* for d in (1..=each).rev() { propagate l >> d and (r - 1) >> d }
Assign_propagate_each(t, l, r, d) ==
    IF d < 1 THEN t
    ELSE LET t1 == IF Shl(Shr(l, d), d) # l THEN Assign_propagate(t, Shr(l, d)) ELSE t
             t2 == IF Shl(Shr(r, d), d) # r THEN Assign_propagate(t1, Shr(r - 1, d)) ELSE t1
         IN  Assign_propagate_each(t2, l, r, d - 1)

RECURSIVE Assign_composite_loop(_, _, _, _, _)
\* while l < r { .. }; res_l.composite(res_r)
Assign_composite_loop(t, l, r, res_l, res_r) ==
    IF l < r
    THEN LET res_l1 == IF l % 2 = 1 THEN binary_operation(res_l, t.data[l]) ELSE res_l
             l1 == IF l % 2 = 1 THEN l + 1 ELSE l
             r1 == IF r % 2 = 1 THEN r - 1 ELSE r
             res_r1 == IF r % 2 = 1 THEN binary_operation(t.data[r1], res_r) ELSE res_r
         IN  Assign_composite_loop(t, l1 \div 2, r1 \div 2, res_l1, res_r1)
    ELSE binary_operation(res_l, res_r)

\* AssignSegmentTree::composite(lo..hi)
Assign_composite(t, lo, hi) ==
    LET l == Assign_inner_index(t, lo)
        r == Assign_inner_index(t, hi)
    IN  IF l + 1 = r THEN Assign_get(t, l - SliceLen(t.lazy_map))
        ELSE IF l = SliceLen(t.lazy_map) /\ r = SliceLen(t.lazy_map) + t.len
        THEN IF 1 \in DOMAIN t.data THEN Done(t, t.data[1]) ELSE Panic(t)
        ELSE IF l >= r THEN Done(t, identity)
        ELSE LET each == ilog2(BitXor(l, r - 1))
                 t1 == Assign_propagate_common(t, l, r, t.height, each)
                 t2 == Assign_propagate_each(t1, l, r, each)
             IN  Done(t2, Assign_composite_loop(t2, l, r, identity, identity))

RECURSIVE Assign_set_update(_, _, _)
\* for d in 1..=height { update(i >> d) }
Assign_set_update(t, i, d) ==
    IF d > t.height THEN t
    ELSE Assign_set_update(Assign_update(t, Shr(i, d)), i, d + 1)

\* set that composes act with the previous value instead of replacing it
Assign_set_composed(t, i, act) ==
    LET ii == Assign_inner_index(t, i)
        t1 == Assign_path_propagate(t, ii, t.height)
        prev == t1.data[ii]
    IN  Done(Assign_set_update(
                [t1 EXCEPT !.data[ii] = binary_operation(act, prev)], ii, 1), prev)

\* set that returns what the leaf held before the pending assignments of its
\* ancestors were pushed down to it
Assign_set_stale_prev(t, i, act) ==
    LET ii == Assign_inner_index(t, i)
        t1 == Assign_path_propagate(t, ii, t.height)
    IN  Done(Assign_set_update([t1 EXCEPT !.data[ii] = act], ii, 1), t.data[ii])

\* AssignSegmentTree::set
Assign_set(t, i, act) ==
    LET ii == Assign_inner_index(t, i)
        t1 == Assign_path_propagate(t, ii, t.height)
        prev == t1.data[ii]
    IN  Done(Assign_set_update([t1 EXCEPT !.data[ii] = act], ii, 1), prev)

RECURSIVE Assign_assign_common(_, _, _, _, _, _)
\* assign: for d in (each + 1..=height).rev() { propagate; lazy_pow.push(pow_act); square }
Assign_assign_common(t, l, r, d, each, pow_act) ==
    IF d <= each THEN [t |-> t, pow_act |-> pow_act]
    ELSE LET t1 == IF Shl(Shr(l, d), d) # l \/ Shl(Shr(r, d), d) # r
                   THEN Assign_propagate(t, Shr(l, d)) ELSE t
             t2 == [t1 EXCEPT !.lazy_pow = Push(t1.lazy_pow, pow_act)]
         IN  Assign_assign_common(t2, l, r, d - 1, each, binary_operation(pow_act, pow_act))

RECURSIVE Assign_assign_each(_, _, _, _, _)
\* assign: for d in (1..=each).rev() { propagate; lazy_pow.push(pow_act); square }
Assign_assign_each(t, l, r, d, pow_act) ==
    IF d < 1 THEN [t |-> t, pow_act |-> pow_act]
    ELSE LET t1 == IF Shl(Shr(l, d), d) # l THEN Assign_propagate(t, Shr(l, d)) ELSE t
             t2 == IF Shl(Shr(r, d), d) # r THEN Assign_propagate(t1, Shr(r - 1, d)) ELSE t1
             t3 == [t2 EXCEPT !.lazy_pow = Push(t2.lazy_pow, pow_act)]
         IN  Assign_assign_each(t3, l, r, d - 1, binary_operation(pow_act, pow_act))

RECURSIVE Assign_assign_loop(_, _, _, _)
\* assign: while l < r { .. push(l, id) .. push(r, id) .. id += 1 }
Assign_assign_loop(t, l, r, id) ==
    IF l < r
    THEN LET t1 == IF l % 2 = 1 THEN Assign_push(t, l, id) ELSE t
             l1 == IF l % 2 = 1 THEN l + 1 ELSE l
             r1 == IF r % 2 = 1 THEN r - 1 ELSE r
             t2 == IF r % 2 = 1 THEN Assign_push(t1, r1, id) ELSE t1
         IN  Assign_assign_loop(t2, l1 \div 2, r1 \div 2, id + 1)
    ELSE t

RECURSIVE Assign_assign_update(_, _, _, _)
\* assign: for d in 1..=height { update l >> d and (r - 1) >> d }
Assign_assign_update(t, l, r, d) ==
    IF d > t.height THEN t
    ELSE LET t1 == IF Shl(Shr(l, d), d) # l THEN Assign_update(t, Shr(l, d)) ELSE t
             t2 == IF Shl(Shr(r, d), d) # r THEN Assign_update(t1, Shr(r - 1, d)) ELSE t1
         IN  Assign_assign_update(t2, l, r, d + 1)

\* the compaction branch without propagate_all(): the table of powers is
\* cleared while slots of lazy_map still name its entries
Assign_compact_no_propagate(t) ==
    [Assign_update_all(t) EXCEPT !.lazy_pow = Slice(<< >>)]

\* the compaction branch without lazy_pow.clear()
Assign_compact_kept_pow(t) ==
    Assign_update_all(Assign_propagate_all(t))

\* the branch of assign taken when lazy_pow.len() >= data.len()
Assign_compact(t) ==
    [Assign_update_all(Assign_propagate_all(t)) EXCEPT !.lazy_pow = Slice(<< >>)]

\* AssignSegmentTree::assign(lo..hi, act); compacted tells which branch of the
\* final if was taken
Assign_assign(t, lo, hi, act) ==
    LET l == Assign_inner_index(t, lo)
        r == Assign_inner_index(t, hi)
    IN  IF l + 1 = r
        THEN [t |-> Assign_set(t, l - SliceLen(t.lazy_map), act).t, ret |-> Unit,
              panic |-> FALSE, compacted |-> FALSE]
        ELSE LET id == SliceLen(t.lazy_pow)
                 each == ilog2(BitXor(l, r - 1))
                 s1 == Assign_assign_common(t, l, r, t.height, each, act)
                 s2 == Assign_assign_each(s1.t, l, r, each, s1.pow_act)
                 t3 == [s2.t EXCEPT !.lazy_pow = Push(s2.t.lazy_pow, s2.pow_act)]
                 t4 == Assign_assign_loop(t3, l, r, id)
             IN  IF SliceLen(t4.lazy_pow) < SliceLen(t4.data)
                 THEN [t |-> Assign_assign_update(t4, l, r, 1), ret |-> Unit,
                       panic |-> FALSE, compacted |-> FALSE]
                 ELSE [t |-> Assign_compact(t4), ret |-> Unit,
                       panic |-> FALSE, compacted |-> TRUE]

(***************************************************************************)
(* Specification SpecAssign: AssignSegmentTree built by from, then         *)
(* in-bounds assign, set, get and composite calls.                         *)
(***************************************************************************)
InitAssign ==
    /\ \E n \in 1..MaxLenAssign : \E values \in Arrays(n) :
          /\ asg = Assign_from(values)
          /\ arr = values
    /\ seg = Unused /\ lz = Unused /\ dyn = Unused /\ dual = Unused
    /\ sl = Unused /\ sn = Unused
    /\ last_op = "from"
    /\ panicked = FALSE
    /\ run = Unused
    /\ rq = Unused

OnlyAssign == UNCHANGED <<seg, lz, dyn, dual, sl, sn, panicked, run, rq>>

AssignAssign ==
    /\ \E l \in 0..asg.len : \E r \in l..asg.len : \E f \in Elems :
          LET c == Assign_assign(asg, l, r, f)
          IN  /\ asg' = c.t
              /\ arr' = FillRange(arr, l, r, f)
              /\ last_op' = IF c.compacted THEN "assign_compact" ELSE "assign"
    /\ OnlyAssign

AssignSet ==
    /\ \E i \in 0..(asg.len - 1) : \E f \in Elems :
          /\ asg' = Assign_set(asg, i, f).t
          /\ arr' = [arr EXCEPT ![i] = f]
    /\ last_op' = "set"
    /\ OnlyAssign

AssignGet ==
    /\ \E i \in 0..(asg.len - 1) : asg' = Assign_get(asg, i).t
    /\ last_op' = "get"
    /\ UNCHANGED arr
    /\ OnlyAssign

AssignComposite ==
    /\ \E l \in 0..asg.len : \E r \in l..asg.len : asg' = Assign_composite(asg, l, r).t
    /\ last_op' = "composite"
    /\ UNCHANGED arr
    /\ OnlyAssign

NextAssign == AssignAssign \/ AssignSet \/ AssignGet \/ AssignComposite

SpecAssign == InitAssign /\ [][NextAssign]_vars

\* C2: in every state reached by in-bounds assign, set, get and composite
\* calls (however many, the compaction branch of assign included), every
\* get(i) returns element i and every composite(l..r) returns the left-to-right
\* composite of elements l..r-1 of the plain array on which assign overwrites
\* every element of the range.
C2_AssignRefinesArray ==
    /\ \A i \in 0..(asg.len - 1) : Assign_get(asg, i).ret = arr[i]
    /\ \A l \in 0..asg.len : \A r \in l..asg.len :
          LET c == Assign_composite(asg, l, r)
          IN  ~c.panic /\ c.ret = Fold(arr, l, r)

\* C2 is reached: an assign has just taken the compaction branch on a tree of
\* three elements, leaving 1 on elements 0 and 1 and 0 on element 2.
C2_Witness ==
    /\ last_op = "assign_compact"
    /\ asg.len = 3
    /\ SliceLen(asg.lazy_pow) = 0
    /\ arr = Slice(<< <<1>>, <<1>>, <<0>> >>)
    /\ Assign_composite(asg, 0, 3).ret = <<1, 1, 0>>

\* C13: at every return from a public operation lazy_pow.len() does not
\* exceed data.len(); an assign that does not compact returns with
\* lazy_pow.len() < data.len(), and an assign that would otherwise return with
\* lazy_pow.len() >= data.len() returns with every pending assignment applied
\* down to the leaves, every aggregate recomputed and lazy_pow empty.
C13_LazyPowBounded ==
    /\ SliceLen(asg.lazy_pow) <= SliceLen(asg.data)
    /\ last_op = "assign" => SliceLen(asg.lazy_pow) < SliceLen(asg.data)
    /\ last_op = "assign_compact" =>
          /\ SliceLen(asg.lazy_pow) = 0
          /\ \A i \in DOMAIN asg.lazy_map : asg.lazy_map[i] = NULL_ID
          /\ \A i \in 0..(asg.len - 1) : asg.data[Assign_inner_index(asg, i)] = arr[i]
          /\ \A i \in 1..((SliceLen(asg.data) \div 2) - 1) :
                asg.data[i] = binary_operation(asg.data[2 * i], asg.data[2 * i + 1])

\* C13 is reached: an assign over 0..2 has just compacted a tree of three
\* elements; the leaves hold the assigned values, the root the composite of
\* all three, and the table of powers is empty.
C13_Witness ==
    /\ last_op = "assign_compact"
    /\ asg.len = 3
    /\ asg.data[4] = <<0>> /\ asg.data[5] = <<0>> /\ asg.data[6] = <<1>>
    /\ asg.data[2] = <<0, 0>>
    /\ asg.data[1] = <<0, 0, 1>>
    /\ asg.lazy_map[2] = NULL_ID
    /\ SliceLen(asg.lazy_pow) = 0

\* the values every get and every composite return on tree t
Assign_observations(t) ==
    [gets |-> [i \in 0..(t.len - 1) |-> Assign_get(t, i).ret],
     composites |-> [lr \in {x \in (0..t.len) \X (0..t.len) : x[1] <= x[2]} |->
                        Assign_composite(t, lr[1], lr[2]).ret]]

\* C14: from every tree state, for every range and every f, assign(range, f)
\* performed twice in a row leaves a tree on which every get and every
\* composite returns what it returns after performing it once.
C14_AssignTwiceIsOnce ==
    \A l \in 0..asg.len : \A r \in l..asg.len : \A f \in Elems :
        LET once == Assign_assign(asg, l, r, f)
            twice == Assign_assign(once.t, l, r, f)
        IN  Assign_observations(twice.t) = Assign_observations(once.t)

\* C14 is reached: the tree is in a state from which assign(0..2, 1) does not
\* compact and the same call repeated does, both leaving 1 on elements 0 and 1.
C14_Witness ==
    /\ asg.len = 3
    /\ last_op \in {"assign", "set"}
    /\ LET once == Assign_assign(asg, 0, 2, <<1>>)
           twice == Assign_assign(once.t, 0, 2, <<1>>)
       IN  /\ ~once.compacted
           /\ twice.compacted
           /\ Assign_get(once.t, 0).ret = <<1>>
           /\ Assign_get(twice.t, 0).ret = <<1>>
           /\ Assign_composite(twice.t, 0, 3).ret = Assign_composite(once.t, 0, 3).ret

(***************************************************************************)
(* crates/segment_tree/src/dual.rs : DualSegmentTree                       *)
(*                                                                         *)
(* T is the product of the monoid of the affine maps over Z_2 under        *)
(* composition (the range-affine-point-get use of the tree) and of the     *)
(* counters 0..MaxCount under saturating addition (the range-add use):     *)
(* <<a, b, k>> is the map x |-> a*x + b with the counter k.  The elements  *)
(* with counter 0 are the type with IS_COMMUTATIVE = false, the elements   *)
(* with the identity map are the type with IS_COMMUTATIVE = true, whose    *)
(* operation commutes.  The field is_commutative of the record is          *)
(* T::IS_COMMUTATIVE.                                                      *)
(***************************************************************************)
\* the value at which a counter saturates
MaxCount == 2

\* <T as Monoid>::identity
Dual_identity == <<act_identity[1], act_identity[2], 0>>

\* <T as Monoid>::binary_operation
Dual_binary_operation(x, y) ==
    LET f == composite(<<x[1], x[2]>>, <<y[1], y[2]>>)
        k == IF x[3] + y[3] > MaxCount THEN MaxCount ELSE x[3] + y[3]
    IN  <<f[1], f[2], k>>

\* the elements given to updates when IS_COMMUTATIVE = false
DualElems == {<<f[1], f[2], 0>> : f \in InActs}

\* the elements given to updates when IS_COMMUTATIVE = true
DualCommElems == {<<act_identity[1], act_identity[2], k>> : k \in 1..2}

\* the elements of the type of tree t
Dual_elems(t) == IF t.is_commutative THEN DualCommElems ELSE DualElems

\* DualSegmentTree::new
Dual_new(n, is_commutative) ==
    LET buf_len == next_power_of_two(n)
    IN  [lazy |-> [i \in 0..(buf_len + n + (n % 2) - 1) |-> Dual_identity],
         len |-> n,
         buf_len |-> buf_len,
         is_commutative |-> is_commutative]

\* DualSegmentTree::len
Dual_len(t) == t.len

\* DualSegmentTree::inner_index
Dual_inner_index(t, i) == t.buf_len + i

\* propagate with the children's pending element applied after the parent's
Dual_propagate_swapped(t, i) ==
    LET lazy == t.lazy[i]
    IN  [t EXCEPT !.lazy[i] = Dual_identity,
                  !.lazy[i * 2] = Dual_binary_operation(t.lazy[i * 2], lazy),
                  !.lazy[i * 2 + 1] = Dual_binary_operation(t.lazy[i * 2 + 1], lazy)]

\* DualSegmentTree::propagate
Dual_propagate(t, i) ==
    LET lazy == t.lazy[i]
    IN  [t EXCEPT !.lazy[i] = Dual_identity,
                  !.lazy[i * 2] = Dual_binary_operation(lazy, t.lazy[i * 2]),
                  !.lazy[i * 2 + 1] = Dual_binary_operation(lazy, t.lazy[i * 2 + 1])]

RECURSIVE Dual_range_update_propagate(_, _, _, _)
\* for d in (1..=buf_len.trailing_zeros()).rev() { propagate l >> d and (r - 1) >> d }
Dual_range_update_propagate(t, l, r, d) ==
    IF d < 1 THEN t
    ELSE LET t1 == IF Shl(Shr(l, d), d) # l THEN Dual_propagate(t, Shr(l, d)) ELSE t
             t2 == IF Shl(Shr(r, d), d) # r THEN Dual_propagate(t1, Shr(r - 1, d)) ELSE t1
         IN  Dual_range_update_propagate(t2, l, r, d - 1)

RECURSIVE Dual_range_update_loop_overwriting(_, _, _, _)
\* the while loop of range_update storing elem over the pending element
Dual_range_update_loop_overwriting(t, l, r, elem) ==
    IF l < r
    THEN LET t1 == IF l % 2 = 1 THEN [t EXCEPT !.lazy[l] = elem] ELSE t
             l1 == IF l % 2 = 1 THEN l + 1 ELSE l
             r1 == IF r % 2 = 1 THEN r - 1 ELSE r
             t2 == IF r % 2 = 1 THEN [t1 EXCEPT !.lazy[r1] = elem] ELSE t1
         IN  Dual_range_update_loop_overwriting(t2, Shr(l1, 1), Shr(r1, 1), elem)
    ELSE t

RECURSIVE Dual_range_update_loop(_, _, _, _)
\* while l < r { .. lazy[l] = elem * lazy[l] .. lazy[r] = elem * lazy[r] .. }
Dual_range_update_loop(t, l, r, elem) ==
    IF l < r
    THEN LET t1 == IF l % 2 = 1
                   THEN [t EXCEPT !.lazy[l] = Dual_binary_operation(elem, t.lazy[l])] ELSE t
             l1 == IF l % 2 = 1 THEN l + 1 ELSE l
             r1 == IF r % 2 = 1 THEN r - 1 ELSE r
             t2 == IF r % 2 = 1
                   THEN [t1 EXCEPT !.lazy[r1] = Dual_binary_operation(elem, t1.lazy[r1])] ELSE t1
         IN  Dual_range_update_loop(t2, Shr(l1, 1), Shr(r1, 1), elem)
    ELSE t

\* DualSegmentTree::range_update(lo..hi, elem)
Dual_range_update(t, lo, hi, elem) ==
    LET l == Dual_inner_index(t, lo)
        r == Dual_inner_index(t, hi)
    IN  IF l >= r THEN Done(t, Unit)
        ELSE LET t1 == IF ~t.is_commutative
                       THEN Dual_range_update_propagate(t, l, r, trailing_zeros(t.buf_len))
                       ELSE t
             IN  Done(Dual_range_update_loop(t1, l, r, elem), Unit)

RECURSIVE Dual_point_query_loop(_, _, _)
\* while i >= 1 { res = lazy[i] * res; i /= 2 }
Dual_point_query_loop(t, i, res) ==
    IF i >= 1
    THEN Dual_point_query_loop(t, i \div 2, Dual_binary_operation(t.lazy[i], res))
    ELSE res

\* DualSegmentTree::point_query
Dual_point_query(t, i) ==
    Done(t, Dual_point_query_loop(t, Dual_inner_index(t, i), Dual_identity))

RECURSIVE Dual_point_update_propagate(_, _, _)
\* for d in (1..=buf_len.trailing_zeros()).rev() { propagate(i >> d) }
Dual_point_update_propagate(t, i, d) ==
    IF d < 1 THEN t
    ELSE Dual_point_update_propagate(Dual_propagate(t, Shr(i, d)), i, d - 1)

\* point_update that overwrites the leaf without propagating to it first
Dual_point_update_unpropagated(t, i, elem) ==
    LET ii == Dual_inner_index(t, i)
    IN  Done([t EXCEPT !.lazy[ii] = elem], t.lazy[ii])

\* point_update that does what range_update does on one element: elem * a[i]
Dual_point_update_composed(t, i, elem) ==
    LET ii == Dual_inner_index(t, i)
        t1 == Dual_point_update_propagate(t, ii, trailing_zeros(t.buf_len))
    IN  Done([t1 EXCEPT !.lazy[ii] = Dual_binary_operation(elem, t1.lazy[ii])],
             t1.lazy[ii])

\* DualSegmentTree::point_update
Dual_point_update(t, i, elem) ==
    LET ii == Dual_inner_index(t, i)
        t1 == Dual_point_update_propagate(t, ii, trailing_zeros(t.buf_len))
    IN  Done([t1 EXCEPT !.lazy[ii] = elem], t1.lazy[ii])

RECURSIVE Dual_into_vec_loop(_, _)
\* for i in 1..lazy.len() >> 1 { propagate(i) }
Dual_into_vec_loop(t, i) ==
    IF i >= Shr(SliceLen(t.lazy), 1) THEN t
    ELSE Dual_into_vec_loop(Dual_propagate(t, i), i + 1)

\* DualSegmentTree::into_vec: lazy.into_vec().split_off(buf_len)
Dual_into_vec(t) ==
    LET t1 == Dual_into_vec_loop(t, 1)
    IN  Done(t1, [k \in 0..(SliceLen(t1.lazy) - t1.buf_len - 1) |-> t1.lazy[t1.buf_len + k]])

\* the plain array of the dual tree: a[i] <- elem * a[i] on lo..hi
DualMapRange(a, lo, hi, elem) ==
    [i \in DOMAIN a |-> IF lo <= i /\ i < hi THEN Dual_binary_operation(elem, a[i]) ELSE a[i]]

(***************************************************************************)
(* Specification SpecDualRange: DualSegmentTree with IS_COMMUTATIVE =      *)
(* false built by new, then in-bounds range_update and point_query calls.  *)
(* Specification SpecDual: the same with point_update and into_vec calls.  *)
(***************************************************************************)
InitDual ==
    /\ \E n \in 1..MaxLenDual :
          /\ dual = Dual_new(n, FALSE)
          /\ arr = [i \in 0..(n - 1) |-> Dual_identity]
    /\ seg = Unused /\ lz = Unused /\ asg = Unused /\ dyn = Unused
    /\ sl = Unused /\ sn = Unused
    /\ last_op = "new"
    /\ panicked = FALSE
    /\ run = Unused
    /\ rq = Unused

OnlyDual == UNCHANGED <<seg, lz, asg, dyn, sl, sn, panicked, run, rq>>

DualRangeUpdate ==
    /\ last_op # "into_vec"
    /\ \E l \in 0..dual.len : \E r \in l..dual.len : \E e \in Dual_elems(dual) :
          /\ dual' = Dual_range_update(dual, l, r, e).t
          /\ arr' = DualMapRange(arr, l, r, e)
    /\ last_op' = "range_update"
    /\ OnlyDual

DualPointQuery ==
    /\ last_op # "into_vec"
    /\ \E i \in 0..(dual.len - 1) : dual' = Dual_point_query(dual, i).t
    /\ last_op' = "point_query"
    /\ UNCHANGED arr
    /\ OnlyDual

DualPointUpdate ==
    /\ last_op # "into_vec"
    /\ \E i \in 0..(dual.len - 1) : \E e \in Dual_elems(dual) :
          /\ dual' = Dual_point_update(dual, i, e).t
          /\ arr' = [arr EXCEPT ![i] = e]
    /\ last_op' = "point_update"
    /\ OnlyDual

\* into_vec consumes the tree: no call follows it
DualIntoVec ==
    /\ last_op # "into_vec"
    /\ dual' = Dual_into_vec(dual).t
    /\ last_op' = "into_vec"
    /\ UNCHANGED arr
    /\ OnlyDual

NextDualRange == DualRangeUpdate \/ DualPointQuery

SpecDualRange == InitDual /\ [][NextDualRange]_vars

NextDual == DualRangeUpdate \/ DualPointQuery \/ DualPointUpdate \/ DualIntoVec

SpecDual == InitDual /\ [][NextDual]_vars

(***************************************************************************)
(* Specification SpecDualComm: DualSegmentTree with IS_COMMUTATIVE = true  *)
(* over the counters, built by new, then in-bounds range_update,           *)
(* point_update and point_query calls.                                     *)
(***************************************************************************)
InitDualComm ==
    /\ \E n \in 1..MaxLenDual :
          /\ dual = Dual_new(n, TRUE)
          /\ arr = [i \in 0..(n - 1) |-> Dual_identity]
    /\ seg = Unused /\ lz = Unused /\ asg = Unused /\ dyn = Unused
    /\ sl = Unused /\ sn = Unused
    /\ last_op = "new"
    /\ panicked = FALSE
    /\ run = Unused
    /\ rq = Unused

NextDualComm == DualRangeUpdate \/ DualPointUpdate \/ DualPointQuery

SpecDualComm == InitDualComm /\ [][NextDualComm]_vars

\* C5: with IS_COMMUTATIVE = false, after new(n) and any sequence of in-bounds
\* range_update calls, point_query(i) is e_k * ... * e_1 * identity for the
\* elements e_1, .., e_k (in the order of the calls) of the updates whose range
\* contains i, which is what a[i] <- elem * a[i] leaves in the plain array.
C5_DualPointQueryIsProduct ==
    \A i \in 0..(dual.len - 1) : Dual_point_query(dual, i).ret = arr[i]

\* C5 is reached: on a tree of three elements, after range updates, element 1
\* is the constant map 0 while a different element is pending above it.
C5_Witness ==
    /\ last_op = "range_update"
    /\ dual.len = 3
    /\ dual.lazy[2] = <<1, 1, 0>>
    /\ dual.lazy[5] = <<0, 1, 0>>
    /\ arr[1] = <<0, 0, 0>>

usize_MAX == 2147483647

\* Node::NULL_CHILD
NULL_CHILD == usize_MAX

\* !p on usize
BitNot(p) == usize_MAX - p

\* largest distance of the start of a range below 0
MaxNeg == 2

\* Node::new
Node_new(index, value) ==
    [index |-> index, value |-> value, product |-> value,
     left |-> NULL_CHILD, right |-> NULL_CHILD]

\* DynamicSegmentTree::with_capacity
Dyn_with_capacity(start, end) ==
    [arena |-> << >>, start |-> start, end |-> end, reusable_buf |-> << >>]

\* (l..r).contains(&x)
Contains(l, r, x) == l <= x /\ x < r

RECURSIVE Dyn_point_set_loop_no_swap(_, _, _, _, _, _, _)
\* the descent that never swaps the carried pair with the node's pair
Dyn_point_set_loop_no_swap(arena, buf, p, start, end, i, value) ==
    LET buf1 == Append(buf, p)
        mid  == Shr(start + end, 1)
        swap == FALSE
        i1   == IF swap THEN arena[p].index ELSE i
        v1   == IF swap THEN arena[p].value ELSE value
        a1   == IF swap THEN [arena EXCEPT ![p].index = i, ![p].value = value]
                ELSE arena
    IN  IF arena[p].index = i
        THEN [arena |-> [arena EXCEPT ![p].value = value], buf |-> buf1,
              swapped |-> FALSE, found |-> TRUE]
        ELSE IF i < mid
        THEN IF a1[p].left # NULL_CHILD
             THEN LET d == Dyn_point_set_loop_no_swap(a1, buf1, a1[p].left, start, mid, i1, v1)
                  IN  [d EXCEPT !.swapped = swap \/ @]
             ELSE [arena |-> Push([a1 EXCEPT ![p].left = SliceLen(a1)], Node_new(i1, v1)),
                   buf |-> buf1, swapped |-> swap, found |-> FALSE]
        ELSE IF a1[p].right # NULL_CHILD
             THEN LET d == Dyn_point_set_loop_no_swap(a1, buf1, a1[p].right, mid, end, i1, v1)
                  IN  [d EXCEPT !.swapped = swap \/ @]
             ELSE [arena |-> Push([a1 EXCEPT ![p].right = SliceLen(a1)], Node_new(i1, v1)),
                   buf |-> buf1, swapped |-> swap, found |-> FALSE]

RECURSIVE Dyn_point_set_loop_no_find(_, _, _, _, _, _, _)
\* the descent that does not look for the index in the nodes it passes
Dyn_point_set_loop_no_find(arena, buf, p, start, end, i, value) ==
    LET buf1 == Append(buf, p)
        mid  == Shr(start + end, 1)
        swap == IF i < mid THEN i > arena[p].index ELSE i < arena[p].index
        i1   == IF swap THEN arena[p].index ELSE i
        v1   == IF swap THEN arena[p].value ELSE value
        a1   == IF swap THEN [arena EXCEPT ![p].index = i, ![p].value = value]
                ELSE arena
    IN  IF FALSE
        THEN [arena |-> [arena EXCEPT ![p].value = value], buf |-> buf1,
              swapped |-> FALSE, found |-> TRUE]
        ELSE IF i < mid
        THEN IF a1[p].left # NULL_CHILD
             THEN LET d == Dyn_point_set_loop_no_find(a1, buf1, a1[p].left, start, mid, i1, v1)
                  IN  [d EXCEPT !.swapped = swap \/ @]
             ELSE [arena |-> Push([a1 EXCEPT ![p].left = SliceLen(a1)], Node_new(i1, v1)),
                   buf |-> buf1, swapped |-> swap, found |-> FALSE]
        ELSE IF a1[p].right # NULL_CHILD
             THEN LET d == Dyn_point_set_loop_no_find(a1, buf1, a1[p].right, mid, end, i1, v1)
                  IN  [d EXCEPT !.swapped = swap \/ @]
             ELSE [arena |-> Push([a1 EXCEPT ![p].right = SliceLen(a1)], Node_new(i1, v1)),
                   buf |-> buf1, swapped |-> swap, found |-> FALSE]

RECURSIVE Dyn_point_set_loop(_, _, _, _, _, _, _)
\* point_set, the descent: the path is pushed on buf, the smaller of the
\* carried pair and the node's pair goes left, the larger goes right;
\* found tells that the index was already stored, swapped that a
\* std::mem::swap was executed on the way
Dyn_point_set_loop(arena, buf, p, start, end, i, value) ==
    LET buf1 == Append(buf, p)
        mid  == Shr(start + end, 1)
        swap == IF i < mid THEN i > arena[p].index ELSE i < arena[p].index
        i1   == IF swap THEN arena[p].index ELSE i
        v1   == IF swap THEN arena[p].value ELSE value
        a1   == IF swap THEN [arena EXCEPT ![p].index = i, ![p].value = value]
                ELSE arena
    IN  IF arena[p].index = i
        THEN [arena |-> [arena EXCEPT ![p].value = value], buf |-> buf1,
              swapped |-> FALSE, found |-> TRUE]
        ELSE IF i < mid
        THEN IF a1[p].left # NULL_CHILD
             THEN LET d == Dyn_point_set_loop(a1, buf1, a1[p].left, start, mid, i1, v1)
                  IN  [d EXCEPT !.swapped = swap \/ @]
             ELSE [arena |-> Push([a1 EXCEPT ![p].left = SliceLen(a1)], Node_new(i1, v1)),
                   buf |-> buf1, swapped |-> swap, found |-> FALSE]
        ELSE IF a1[p].right # NULL_CHILD
             THEN LET d == Dyn_point_set_loop(a1, buf1, a1[p].right, mid, end, i1, v1)
                  IN  [d EXCEPT !.swapped = swap \/ @]
             ELSE [arena |-> Push([a1 EXCEPT ![p].right = SliceLen(a1)], Node_new(i1, v1)),
                   buf |-> buf1, swapped |-> swap, found |-> FALSE]

\* a product that leaves out the node's own value
Dyn_product_children_only(arena, i) ==
    LET l == arena[i].left
        r == arena[i].right
    IN  IF l = NULL_CHILD /\ r # NULL_CHILD THEN arena[r].product
        ELSE IF l # NULL_CHILD /\ r = NULL_CHILD THEN arena[l].product
        ELSE IF l # NULL_CHILD /\ r # NULL_CHILD
        THEN binary_operation(arena[l].product, arena[r].product)
        ELSE arena[i].value

\* point_set, the match that recalculates the product of node i
Dyn_product(arena, i) ==
    LET l == arena[i].left
        r == arena[i].right
    IN  IF l = NULL_CHILD /\ r # NULL_CHILD
        THEN binary_operation(arena[i].value, arena[r].product)
        ELSE IF l # NULL_CHILD /\ r = NULL_CHILD
        THEN binary_operation(arena[l].product, arena[i].value)
        ELSE IF l # NULL_CHILD /\ r # NULL_CHILD
        THEN binary_operation(binary_operation(arena[l].product, arena[i].value),
                              arena[r].product)
        ELSE arena[i].value

RECURSIVE Dyn_recalculate(_, _)
\* point_set, while let Some(i) = reusable_buf.pop()
Dyn_recalculate(arena, buf) ==
    IF buf = << >> THEN arena
    ELSE LET i == buf[Len(buf)]
         IN  Dyn_recalculate([arena EXCEPT ![i].product = Dyn_product(arena, i)],
                             SubSeq(buf, 1, Len(buf) - 1))

\* point_set that recalculates the product of the last node of the path only
Dyn_point_set_last_only(t, i, value) ==
    IF SliceLen(t.arena) = 0
    THEN [t |-> [t EXCEPT !.arena = Push(t.arena, Node_new(i, value))],
          ret |-> Unit, panic |-> FALSE, swapped |-> FALSE, found |-> FALSE]
    ELSE LET d == Dyn_point_set_loop(t.arena, t.reusable_buf, 0, t.start, t.end, i, value)
         IN  [t |-> [t EXCEPT !.arena = Dyn_recalculate(d.arena, <<d.buf[Len(d.buf)]>>),
                              !.reusable_buf = << >>],
              ret |-> Unit, panic |-> FALSE, swapped |-> d.swapped, found |-> d.found]

\* DynamicSegmentTree::point_set; found and swapped are those of the descent
Dyn_point_set(t, i, value) ==
    IF SliceLen(t.arena) = 0
    THEN [t |-> [t EXCEPT !.arena = Push(t.arena, Node_new(i, value))],
          ret |-> Unit, panic |-> FALSE, swapped |-> FALSE, found |-> FALSE]
    ELSE LET d == Dyn_point_set_loop(t.arena, t.reusable_buf, 0, t.start, t.end, i, value)
         IN  [t |-> [t EXCEPT !.arena = Dyn_recalculate(d.arena, d.buf),
                              !.reusable_buf = << >>],
              ret |-> Unit, panic |-> FALSE, swapped |-> d.swapped, found |-> d.found]

RECURSIVE Dyn_drain_one(_, _, _)
\* range_query, the drain before an early return: an entry p prepends the
\* value of node p to res, an entry !p appends the value of node p
Dyn_drain_one(arena, buf, res) ==
    IF buf = << >> THEN res
    ELSE LET p    == buf[Len(buf)]
             rest == SubSeq(buf, 1, Len(buf) - 1)
         IN  IF p < usize_MAX \div 2
             THEN Dyn_drain_one(arena, rest, binary_operation(arena[p].value, res))
             ELSE Dyn_drain_one(arena, rest, binary_operation(res, arena[BitNot(p)].value))

RECURSIVE Dyn_drain_prepend_only(_, _, _, _)
\* a final drain that prepends every buffered value to res_l, the
\* complemented entries too
Dyn_drain_prepend_only(arena, buf, res_l, res_r) ==
    IF buf = << >> THEN [res_l |-> res_l, res_r |-> res_r]
    ELSE LET p    == buf[Len(buf)]
             rest == SubSeq(buf, 1, Len(buf) - 1)
             q    == IF p < usize_MAX \div 2 THEN p ELSE BitNot(p)
         IN  Dyn_drain_prepend_only(arena, rest,
                                    binary_operation(arena[q].value, res_l), res_r)

RECURSIVE Dyn_drain(_, _, _, _)
\* range_query, the final drain: p prepends to res_l, !p appends to res_r
Dyn_drain(arena, buf, res_l, res_r) ==
    IF buf = << >> THEN [res_l |-> res_l, res_r |-> res_r]
    ELSE LET p    == buf[Len(buf)]
             rest == SubSeq(buf, 1, Len(buf) - 1)
         IN  IF p < usize_MAX \div 2
             THEN Dyn_drain(arena, rest, binary_operation(arena[p].value, res_l), res_r)
             ELSE Dyn_drain(arena, rest, res_l,
                            binary_operation(res_r, arena[BitNot(p)].value))

RECURSIVE Dyn_query_descend(_, _, _, _, _, _, _)
\* range_query, the first loop: descends while l..r lies in one half of the
\* node's range; returns a value, or breaks at the node whose midpoint splits
\* l..r
Dyn_query_descend(arena, buf, p, start, end, l, r) ==
    LET node == arena[p]
        mid  == Shr(start + end, 1)
        here == IF Contains(l, r, node.index) THEN node.value ELSE identity
        out(res) == [returned |-> TRUE, ret |-> res, p |-> p, start |-> start,
                     end |-> end, mid |-> mid, buf |-> << >>]
    IN  IF l >= mid
        THEN IF node.right # NULL_CHILD
             THEN Dyn_query_descend(arena,
                     IF Contains(l, r, node.index) THEN Append(buf, p) ELSE buf,
                     node.right, mid, end, l, r)
             ELSE out(Dyn_drain_one(arena, buf, here))
        ELSE IF r <= mid
        THEN IF node.left # NULL_CHILD
             THEN Dyn_query_descend(arena,
                     IF Contains(l, r, node.index) THEN Append(buf, BitNot(p)) ELSE buf,
                     node.left, start, mid, l, r)
             ELSE out(Dyn_drain_one(arena, buf, here))
        ELSE [returned |-> FALSE, ret |-> identity, p |-> p, start |-> start,
              end |-> end, mid |-> mid, buf |-> buf]

RECURSIVE Dyn_query_left(_, _, _, _, _, _, _, _)
\* range_query, the loop that computes res_l in the left subtree of the
\* splitting node
Dyn_query_left(arena, buf, p, start, end, l, r, res_l) ==
    IF p \notin DOMAIN arena THEN [res |-> res_l, buf |-> buf]
    ELSE
    LET node == arena[p]
        mid  == Shr(start + end, 1)
    IN  IF l <= start /\ end <= r
        THEN [res |-> binary_operation(node.product, res_l), buf |-> buf]
        ELSE IF l < mid
        THEN LET r1 == IF node.right # NULL_CHILD
                       THEN binary_operation(arena[node.right].product, res_l)
                       ELSE res_l
                 r2 == IF Contains(l, r, node.index)
                       THEN binary_operation(node.value, r1)
                       ELSE r1
             IN  IF node.left # NULL_CHILD
                 THEN Dyn_query_left(arena, buf, node.left, start, mid, l, r, r2)
                 ELSE [res |-> r2, buf |-> buf]
        ELSE LET b1 == IF Contains(l, r, node.index) THEN Append(buf, p) ELSE buf
             IN  IF node.right # NULL_CHILD
                 THEN Dyn_query_left(arena, b1, node.right, mid, end, l, r, res_l)
                 ELSE [res |-> res_l, buf |-> b1]

RECURSIVE Dyn_query_right(_, _, _, _, _, _, _, _)
\* range_query, the loop that computes res_r in the right subtree of the
\* splitting node
Dyn_query_right(arena, buf, p, start, end, l, r, res_r) ==
    IF p \notin DOMAIN arena THEN [res |-> res_r, buf |-> buf]
    ELSE
    LET node == arena[p]
        mid  == Shr(start + end, 1)
    IN  IF l <= start /\ end <= r
        THEN [res |-> binary_operation(res_r, node.product), buf |-> buf]
        ELSE IF r <= mid
        THEN LET b1 == IF Contains(l, r, node.index) THEN Append(buf, BitNot(p)) ELSE buf
             IN  IF node.left # NULL_CHILD
                 THEN Dyn_query_right(arena, b1, node.left, start, mid, l, r, res_r)
                 ELSE [res |-> res_r, buf |-> b1]
        ELSE LET r1 == IF node.left # NULL_CHILD
                       THEN binary_operation(res_r, arena[node.left].product)
                       ELSE res_r
                 r2 == IF Contains(l, r, node.index)
                       THEN binary_operation(r1, node.value)
                       ELSE r1
             IN  IF node.right # NULL_CHILD
                 THEN Dyn_query_right(arena, buf, node.right, mid, end, l, r, r2)
                 ELSE [res |-> r2, buf |-> buf]

\* DynamicSegmentTree::range_query(l..r), the non-recursive version
Dyn_range_query(t, l, r) ==
    IF SliceLen(t.arena) = 0 THEN Done(t, identity)
    ELSE IF l = t.start /\ r = t.end THEN Done(t, t.arena[0].product)
    ELSE IF l >= r THEN Done(t, identity)
    ELSE
    LET d == Dyn_query_descend(t.arena, t.reusable_buf, 0, t.start, t.end, l, r)
    IN  IF d.returned THEN Done([t EXCEPT !.reusable_buf = d.buf], d.ret)
        ELSE
        LET p  == d.p
            ql == IF t.arena[p].left # NULL_CHILD
                  THEN Dyn_query_left(t.arena, d.buf, t.arena[p].left,
                                      d.start, d.mid, l, r, identity)
                  ELSE [res |-> identity, buf |-> d.buf]
            res_l == IF Contains(l, r, t.arena[p].index)
                     THEN binary_operation(ql.res, t.arena[p].value)
                     ELSE ql.res
            qr == IF t.arena[p].right # NULL_CHILD
                  THEN Dyn_query_right(t.arena, ql.buf, t.arena[p].right,
                                       d.mid, d.end, l, r, identity)
                  ELSE [res |-> identity, buf |-> ql.buf]
            f  == Dyn_drain(t.arena, qr.buf, res_l, qr.res)
        IN  Done([t EXCEPT !.reusable_buf = << >>],
                 binary_operation(f.res_l, f.res_r))

RECURSIVE Dyn_rec_query(_, _, _, _, _, _)
\* DynamicSegmentTree::rec_query, the recursive version (i = usize::MAX for a
\* missing child)
Dyn_rec_query(t, i, l, r, start, end) ==
    IF l >= end \/ r <= start THEN identity
    ELSE IF i \notin DOMAIN t.arena THEN identity
    ELSE LET node == t.arena[i]
             mid  == Shr(start + end, 1)
             res  == Dyn_rec_query(t, node.left, l, r, start, mid)
             res1 == IF Contains(l, r, node.index)
                     THEN binary_operation(res, node.value)
                     ELSE res
         IN  IF l <= start /\ end <= r THEN node.product
             ELSE binary_operation(res1, Dyn_rec_query(t, node.right, l, r, mid, end))

\* the state after with_capacity(_, start..end), start in -MaxNeg..0 and
\* 1..MaxLen indices; no value is set
InitDyn ==
    /\ \E s \in (0 - MaxNeg)..0 : \E n \in 1..MaxLen :
          /\ dyn = Dyn_with_capacity(s, s + n)
          /\ arr = [k \in 0..(n - 1) |-> identity]
    /\ seg = Unused /\ lz = Unused /\ asg = Unused /\ dual = Unused
    /\ sl = Unused /\ sn = Unused
    /\ last_op = "with_capacity"
    /\ panicked = FALSE
    /\ run = Unused
    /\ rq = Unused

OnlyDyn == UNCHANGED <<seg, lz, asg, dual, sl, sn, run, rq>>

\* point_set(i, value) with start <= i < end
DynPointSet ==
    /\ ~panicked
    /\ \E i \in dyn.start..(dyn.end - 1) : \E v \in Elems :
          LET c == Dyn_point_set(dyn, i, v)
          IN  /\ dyn' = c.t
              /\ panicked' = c.panic
              /\ arr' = [arr EXCEPT ![i - dyn.start] = v]
              /\ last_op' = IF c.found THEN "point_set_found"
                            ELSE IF c.swapped THEN "point_set_swap"
                            ELSE "point_set"
    /\ OnlyDyn

\* range_query(l..r) with start <= l <= r <= end
DynRangeQuery ==
    /\ ~panicked
    /\ \E l \in dyn.start..dyn.end : \E r \in l..dyn.end :
          LET c == Dyn_range_query(dyn, l, r)
          IN  /\ dyn' = c.t
              /\ panicked' = c.panic
    /\ last_op' = "range_query"
    /\ UNCHANGED arr
    /\ OnlyDyn

NextDyn == DynPointSet \/ DynRangeQuery

SpecDyn == InitDyn /\ [][NextDyn]_vars

\* C3: after any sequence of point_set calls inside the range, every
\* range_query(l..r) with start <= l <= r <= end returns the combination in
\* increasing index order of the value last set at each index of l..r-1
\* (identity for an index never set), and leaves the buffer empty.
C3_DynRefinesArray ==
    /\ ~panicked
    /\ \A l \in dyn.start..dyn.end : \A r \in l..dyn.end :
          LET c == Dyn_range_query(dyn, l, r)
          IN  /\ ~c.panic
              /\ c.ret = Fold(arr, l - dyn.start, r - dyn.start)
              /\ c.t = dyn

\* C3 is reached: on the range -2..2 the indices 1, -2, 0 were set, the last
\* point_set having swapped the carried pair with a node's pair, and
\* the query -2..1 (not the whole range) returns the values of -2 and 0.
C3_Witness ==
    /\ last_op = "point_set_swap"
    /\ dyn.start = 0 - 2 /\ dyn.end = 2
    /\ SliceLen(dyn.arena) = 3
    /\ dyn.arena[0].index # 1
    /\ arr = Slice(<< <<1>>, identity, <<0>>, <<1>> >>)
    /\ Dyn_range_query(dyn, 0 - 2, 1).ret = <<1, 0>>

\* the product of child c, nothing when the child is absent
Dyn_child_product(arena, c) == IF c = NULL_CHILD THEN identity ELSE arena[c].product

\* C15: after every point_set, every arena node satisfies
\* product = left.product * value * right.product, absent children omitted,
\* the nodes whose pair was swapped during the descent included.
C15_ProductOfChildrenAndValue ==
    \A p \in DOMAIN dyn.arena :
        dyn.arena[p].product =
            binary_operation(
                binary_operation(Dyn_child_product(dyn.arena, dyn.arena[p].left),
                                 dyn.arena[p].value),
                Dyn_child_product(dyn.arena, dyn.arena[p].right))

\* C15 is reached: a point_set has just swapped its pair with the pair of a
\* node, and the root now has two children and a product of three values.
C15_Witness ==
    /\ last_op = "point_set_swap"
    /\ SliceLen(dyn.arena) = 3
    /\ dyn.arena[0].left # NULL_CHILD /\ dyn.arena[0].right # NULL_CHILD
    /\ Len(dyn.arena[0].product) = 3
    /\ dyn.arena[0].product # <<dyn.arena[0].value[1], dyn.arena[0].value[1],
                                 dyn.arena[0].value[1]>>

RECURSIVE Dyn_indices(_, _)
\* the indices stored in the subtree of node p
Dyn_indices(arena, p) ==
    IF p = NULL_CHILD THEN {}
    ELSE {arena[p].index} \cup Dyn_indices(arena, arena[p].left)
                          \cup Dyn_indices(arena, arena[p].right)

RECURSIVE Dyn_ordered(_, _, _, _)
\* node p, of half-interval [s, e), and every node below it are placed as C16 says
Dyn_ordered(arena, p, s, e) ==
    LET m == Shr(s + e, 1)
        n == arena[p]
    IN  /\ Contains(s, e, n.index)
        /\ \A x \in Dyn_indices(arena, n.left) : x < n.index /\ Contains(s, m, x)
        /\ \A x \in Dyn_indices(arena, n.right) : x > n.index /\ Contains(m, e, x)
        /\ n.left # NULL_CHILD => Dyn_ordered(arena, n.left, s, m)
        /\ n.right # NULL_CHILD => Dyn_ordered(arena, n.right, m, e)

\* C16: after every point_set with in-range indices, every node p of
\* half-interval [s, e) and midpoint m has its index in [s, e), the indices of
\* its left subtree below its own and in [s, m), the indices of its right
\* subtree above its own and in [m, e); every arena node is in the tree.
C16_IndicesOrdered ==
    SliceLen(dyn.arena) > 0 =>
        /\ Dyn_ordered(dyn.arena, 0, dyn.start, dyn.end)
        /\ Cardinality(Dyn_indices(dyn.arena, 0)) = SliceLen(dyn.arena)

\* C16 is reached: a point_set has just swapped its pair with the root's, and
\* the root of the range -2..2 holds an index of its left half with a smaller
\* index below on the left and a larger one on the right.
C16_Witness ==
    /\ last_op = "point_set_swap"
    /\ dyn.start = 0 - 2 /\ dyn.end = 2
    /\ SliceLen(dyn.arena) = 3
    /\ dyn.arena[0].index = 0 - 1
    /\ dyn.arena[0].left # NULL_CHILD
    /\ dyn.arena[dyn.arena[0].left].index = 0 - 2
    /\ dyn.arena[0].right # NULL_CHILD
    /\ dyn.arena[dyn.arena[0].right].index >= 0

\* C17: the arena length is the number of distinct indices ever set (those
\* where the plain array holds a value), no index is stored in two nodes, and
\* a point_set of an index already present allocates nothing.
C17_OneNodePerIndex ==
    /\ SliceLen(dyn.arena) =
          Cardinality({k \in DOMAIN arr : arr[k] # identity})
    /\ \A p, q \in DOMAIN dyn.arena :
          dyn.arena[p].index = dyn.arena[q].index => p = q
    /\ {dyn.arena[p].index : p \in DOMAIN dyn.arena} =
          {dyn.start + k : k \in {j \in DOMAIN arr : arr[j] # identity}}

\* C17 is reached: a point_set has just found its index in a node below the
\* root and overwritten the value there, on a range of four indices of which
\* two are stored.
C17_Witness ==
    /\ last_op = "point_set_found"
    /\ dyn.end - dyn.start = 4
    /\ SliceLen(dyn.arena) = 2
    /\ dyn.arena[1].index - dyn.start \in DOMAIN arr
    /\ arr[dyn.arena[1].index - dyn.start] = <<1>>
    /\ dyn.arena[1].value = <<1>>
    /\ dyn.arena[0].value = <<0>>
    /\ dyn.arena[0].product \in {<<0, 1>>, <<1, 0>>}

(***************************************************************************)
(* crates/seg_lib/src/lazy.rs : LazySegmentTree                            *)
(*                                                                         *)
(* sl = [data, len, lazy, lazy_height].  An index outside a slice panics:  *)
(* the private steps then yield Aborted, which every later step passes on  *)
(* and the public method reports as its panic.                             *)
(***************************************************************************)
\* the struct of a call that is unwinding
Aborted == [aborted |-> TRUE]

IsAborted(t) == "aborted" \in DOMAIN t

\* from_iter: for i in (1..data.len() / 2).rev() { data[i] = data[2i] * data[2i+1] }
Sl_from_iter_loop(data0) ==
    LET half == SliceLen(data0) \div 2
        F[i \in 0..half] ==
            IF i = 0 THEN data0
            ELSE LET k == half - i
                     d == F[i - 1]
                 IN  IF k < 1 THEN d
                     ELSE [d EXCEPT ![k] = binary_operation(d[k * 2], d[k * 2 + 1])]
    IN  F[half]

\* FromIterator::from_iter for an iterator that yields values and whose
\* size_hint is (min, max); exact says Some(min) == max
Sl_from_iter(values, min, exact) ==
    LET len     == IF exact THEN min ELSE SliceLen(values)
        buf_len == next_power_of_two(min)
        n       == SliceLen(values)
        data0   == [i \in 0..(buf_len + n + (len % 2) - 1) |->
                       IF i >= buf_len /\ i < buf_len + n
                       THEN values[i - buf_len] ELSE identity]
    IN  [data |-> Sl_from_iter_loop(data0),
         len |-> len,
         lazy |-> [i \in 0..(buf_len - 1) |-> act_identity],
         lazy_height |-> trailing_zeros(buf_len)]

\* impl From<Vec<Arg>>: the size hint of a Vec's iterator is exact
Sl_from(values) == Sl_from_iter(values, SliceLen(values), TRUE)

\* LazySegmentTree::new: n identities, with an exact size hint
Sl_new(n) == Sl_from_iter([i \in 0..(n - 1) |-> identity], n, TRUE)

\* LazySegmentTree::len
Sl_len(t) == t.len

\* LazySegmentTree::inner_index
Sl_inner_index(t, i) == SliceLen(t.lazy) + i

\* LazySegmentTree::update
Sl_update(t, i) ==
    IF IsAborted(t) THEN t
    ELSE IF {i, Shl(i, 1), Shl(i, 1) + 1} \subseteq DOMAIN t.data
    THEN [t EXCEPT !.data[i] =
             binary_operation(t.data[Shl(i, 1)], t.data[Shl(i, 1) + 1])]
    ELSE Aborted

\* push that composes the pending act after the new one
Sl_push_swapped(t, i, act) ==
    IF IsAborted(t) THEN t
    ELSE IF i \notin DOMAIN t.data THEN Aborted
    ELSE LET t1 == [t EXCEPT !.data[i] = apply(act, t.data[i])]
         IN  IF i < SliceLen(t.lazy)
             THEN [t1 EXCEPT !.lazy[i] = composite(t.lazy[i], act)]
             ELSE t1

\* LazySegmentTree::push
Sl_push(t, i, act) ==
    IF IsAborted(t) THEN t
    ELSE IF i \notin DOMAIN t.data THEN Aborted
    ELSE LET t1 == [t EXCEPT !.data[i] = apply(act, t.data[i])]
         IN  IF i < SliceLen(t.lazy)
             THEN [t1 EXCEPT !.lazy[i] = composite(act, t.lazy[i])]
             ELSE t1

\* LazySegmentTree::propagate
Sl_propagate(t, i) ==
    IF IsAborted(t) THEN t
    ELSE IF i \notin DOMAIN t.lazy THEN Aborted
    ELSE LET act == t.lazy[i]
             t1  == [t EXCEPT !.lazy[i] = act_identity]
         IN  Sl_push(Sl_push(t1, Shl(i, 1), act), Shl(i, 1) + 1, act)

RECURSIVE Sl_point_query_loop(_, _, _)
\* for d in (1..=lazy_height).rev() { propagate(i >> d) }
Sl_point_query_loop(t, i, d) ==
    IF d < 1 THEN t
    ELSE Sl_point_query_loop(Sl_propagate(t, Shr(i, d)), i, d - 1)

\* LazySegmentTree::point_query
Sl_point_query(t, i) ==
    LET ii == Sl_inner_index(t, i)
        t1 == Sl_point_query_loop(t, ii, t.lazy_height)
    IN  IF IsAborted(t1) THEN Panic(t)
        ELSE IF ii \notin DOMAIN t1.data THEN Panic(t1)
        ELSE Done(t1, t1.data[ii])

\* (x >> d) << d != x
NotAligned(x, d) == Shl(Shr(x, d), d) # x

RECURSIVE Sl_range_query_above(_, _, _, _, _)
\* range_query: for d in (common + 1..=lazy_height).rev()
Sl_range_query_above(t, l, r, d, common) ==
    IF d <= common THEN t
    ELSE Sl_range_query_above(
            IF NotAligned(l, d) \/ NotAligned(r, d) THEN Sl_propagate(t, Shr(l, d)) ELSE t,
            l, r, d - 1, common)

RECURSIVE Sl_range_query_below(_, _, _, _)
\* range_query: for d in (1..=common).rev()
Sl_range_query_below(t, l, r, d) ==
    IF d < 1 THEN t
    ELSE LET t1 == IF NotAligned(l, d) THEN Sl_propagate(t, Shr(l, d)) ELSE t
             t2 == IF NotAligned(r, d) THEN Sl_propagate(t1, Shr(r, d)) ELSE t1
         IN  Sl_range_query_below(t2, l, r, d - 1)

RECURSIVE Sl_range_query_loop(_, _, _, _, _)
\* range_query: while l != r { .. }; res_l * res_r
Sl_range_query_loop(t, l, r, res_l, res_r) ==
    IF l = r THEN Done(t, binary_operation(res_l, res_r))
    ELSE IF l >= r
    THEN IF l \notin DOMAIN t.data THEN Panic(t)
         ELSE Sl_range_query_loop(t, Shr(l + 1, trailing_zeros(l + 1)), r,
                                  binary_operation(res_l, t.data[l]), res_r)
    ELSE IF (r - 1) \notin DOMAIN t.data THEN Panic(t)
         ELSE Sl_range_query_loop(t, l, Shr(r - 1, trailing_zeros(r - 1)),
                                  res_l, binary_operation(t.data[r - 1], res_r))

\* LazySegmentTree::range_query(lo..hi)
Sl_range_query(t, lo, hi) ==
    LET l == Sl_inner_index(t, lo)
        r == Sl_inner_index(t, hi)
    IN  IF l >= r THEN Done(t, identity)
        ELSE IF l + 1 = r THEN Sl_point_query(t, l - SliceLen(t.lazy))
        ELSE
        LET common == ilog2(BitXor(l, r))
            t1 == Sl_range_query_above(t, l, r, t.lazy_height, common)
            t2 == Sl_range_query_below(t1, l, r, common)
            l1 == Shr(l, trailing_zeros(l))
            r1 == Shr(r, trailing_zeros(r))
        IN  IF IsAborted(t2) THEN Panic(t)
            ELSE IF l1 = r1
            THEN IF l1 \notin DOMAIN t2.data THEN Panic(t2) ELSE Done(t2, t2.data[l1])
            ELSE Sl_range_query_loop(t2, l1, r1, identity, identity)

RECURSIVE Sl_point_update_loop(_, _, _)
\* for d in 1..=lazy_height { update(i >> d) }
Sl_point_update_loop(t, i, d) ==
    IF d > t.lazy_height THEN t
    ELSE LET t1 == Sl_update(t, Shr(i, d))
         IN  IF IsAborted(t1) THEN t1 ELSE Sl_point_update_loop(t1, i, d + 1)

\* LazySegmentTree::point_update
Sl_point_update(t, i, act) ==
    LET c  == Sl_point_query(t, i)
        ii == Sl_inner_index(t, i)
    IN  IF c.panic THEN Panic(t)
        ELSE LET t1 == Sl_point_update_loop(
                          [c.t EXCEPT !.data[ii] = apply(act, c.ret)], ii, 1)
             IN  IF IsAborted(t1) THEN Panic(t) ELSE Done(t1, Unit)

RECURSIVE Sl_range_update_above(_, _, _, _, _)
\* range_update: for d in (common + 1..=lazy_height).rev()
Sl_range_update_above(t, l, r, d, common) ==
    IF d <= common THEN t
    ELSE Sl_range_update_above(
            IF NotAligned(l, d) \/ NotAligned(r, d) THEN Sl_propagate(t, Shr(l, d)) ELSE t,
            l, r, d - 1, common)

RECURSIVE Sl_range_update_below(_, _, _, _)
\* range_update: for d in (1..=common).rev()
Sl_range_update_below(t, l, r, d) ==
    IF d < 1 THEN t
    ELSE LET t1 == IF NotAligned(l, d) THEN Sl_propagate(t, Shr(l, d)) ELSE t
             t2 == IF NotAligned(r, d) THEN Sl_propagate(t1, Shr(r - 1, d)) ELSE t1
         IN  Sl_range_update_below(t2, l, r, d - 1)

RECURSIVE Sl_range_update_loop(_, _, _, _)
\* range_update: while l != r { push(l, act) or push(r - 1, act) }
Sl_range_update_loop(t, l, r, act) ==
    IF l = r \/ IsAborted(t) THEN t
    ELSE IF l >= r
    THEN Sl_range_update_loop(Sl_push(t, l, act),
                              Shr(l + 1, trailing_zeros(l + 1)), r, act)
    ELSE Sl_range_update_loop(Sl_push(t, r - 1, act),
                              l, Shr(r - 1, trailing_zeros(r - 1)), act)

RECURSIVE Sl_range_update_parents(_, _, _, _)
\* range_update: for d in 1..=lazy_height { update(l >> d); update((r - 1) >> d) }
Sl_range_update_parents(t, l, r, d) ==
    IF IsAborted(t) THEN t
    ELSE IF d > t.lazy_height THEN t
    ELSE LET t1 == IF NotAligned(l, d) THEN Sl_update(t, Shr(l, d)) ELSE t
             t2 == IF NotAligned(r, d) THEN Sl_update(t1, Shr(r - 1, d)) ELSE t1
         IN  Sl_range_update_parents(t2, l, r, d + 1)

\* LazySegmentTree::range_update(lo..hi, act)
Sl_range_update(t, lo, hi, act) ==
    LET l == Sl_inner_index(t, lo)
        r == Sl_inner_index(t, hi)
    IN  IF l >= r THEN Done(t, Unit)
        ELSE IF l + 1 = r THEN Sl_point_update(t, l - SliceLen(t.lazy), act)
        ELSE
        LET common == ilog2(BitXor(l, r - 1))
            t1 == Sl_range_update_above(t, l, r, t.lazy_height, common)
            t2 == Sl_range_update_below(t1, l, r, common)
            l1 == Shr(l, trailing_zeros(l))
            r1 == Shr(r, trailing_zeros(r))
            t3 == IF l1 = r1 THEN Sl_push(t2, l1, act)
                  ELSE Sl_range_update_loop(t2, l1, r1, act)
            t4 == Sl_range_update_parents(t3, l, r, 1)
        IN  IF IsAborted(t4) THEN Panic(t) ELSE Done(t4, Unit)

RECURSIVE Sl_into_vec_loop(_, _)
\* into_vec: for i in 1..data.len() >> 1 { propagate(i) }
Sl_into_vec_loop(t, i) ==
    IF IsAborted(t) THEN t
    ELSE IF i >= Shr(SliceLen(t.data), 1) THEN t
    ELSE Sl_into_vec_loop(Sl_propagate(t, i), i + 1)

\* LazySegmentTree::into_vec: data.into_vec().split_off(lazy.len())
Sl_into_vec(t) ==
    LET t1 == Sl_into_vec_loop(t, 1)
    IN  IF IsAborted(t1) THEN Panic(t)
        ELSE IF SliceLen(t1.lazy) > SliceLen(t1.data) THEN Panic(t1)
        ELSE Done(t1, [k \in 0..(SliceLen(t1.data) - SliceLen(t1.lazy) - 1) |->
                          t1.data[SliceLen(t1.lazy) + k]])

(***************************************************************************)
(* Specification SpecSl: seg_lib LazySegmentTree built from a Vec, then    *)
(* in-bounds point_update, range_update, point_query and range_query.      *)
(* Specification SpecSlAny: the same, ended by one range_query or          *)
(* range_update call whose upper end lies beyond len (the calls after it   *)
(* are not explored).                                                      *)
(***************************************************************************)
\* how far beyond len the upper end of an out-of-bounds range lies at most
MaxOver == 2

InitSl ==
    /\ \E n \in 1..MaxLen : \E values \in Arrays(n) :
          /\ sl = Sl_from(values)
          /\ arr = values
    /\ seg = Unused /\ lz = Unused /\ asg = Unused /\ dyn = Unused
    /\ dual = Unused /\ sn = Unused
    /\ last_op = "from"
    /\ panicked = FALSE
    /\ run = Unused
    /\ rq = Unused

OnlySl == UNCHANGED <<seg, lz, asg, dyn, dual, sn, run, rq>>

SlPointUpdate ==
    /\ ~panicked
    /\ \E i \in 0..(sl.len - 1) : \E f \in InActs :
          LET c == Sl_point_update(sl, i, f)
          IN  /\ sl' = c.t
              /\ panicked' = c.panic
              /\ arr' = MapRange(arr, i, i + 1, f)
    /\ last_op' = "point_update"
    /\ OnlySl

SlRangeUpdate ==
    /\ ~panicked
    /\ \E l \in 0..sl.len : \E r \in l..sl.len : \E f \in InActs :
          LET c == Sl_range_update(sl, l, r, f)
          IN  /\ sl' = c.t
              /\ panicked' = c.panic
              /\ arr' = MapRange(arr, l, r, f)
    /\ last_op' = "range_update"
    /\ OnlySl

SlPointQuery ==
    /\ ~panicked
    /\ \E i \in 0..(sl.len - 1) :
          LET c == Sl_point_query(sl, i)
          IN  /\ sl' = c.t
              /\ panicked' = c.panic
    /\ last_op' = "point_query"
    /\ UNCHANGED arr
    /\ OnlySl

SlRangeQuery ==
    /\ ~panicked
    /\ \E l \in 0..sl.len : \E r \in l..sl.len :
          LET c == Sl_range_query(sl, l, r)
          IN  /\ sl' = c.t
              /\ panicked' = c.panic
    /\ last_op' = "range_query"
    /\ UNCHANGED arr
    /\ OnlySl

\* a call beyond len has been made
SlWentBeyond == last_op \in {"range_query_beyond", "range_update_beyond"}

\* range_query(l..r) with l < r and r > len
SlRangeQueryBeyond ==
    /\ ~panicked
    /\ ~SlWentBeyond
    /\ \E r \in (sl.len + 1)..(sl.len + MaxOver) : \E l \in 0..(r - 1) :
          LET c == Sl_range_query(sl, l, r)
          IN  /\ sl' = c.t
              /\ panicked' = c.panic
    /\ last_op' = "range_query_beyond"
    /\ UNCHANGED arr
    /\ OnlySl

\* range_update(l..r, f) with l < r and r > len; the plain array takes f on
\* l..len-1
SlRangeUpdateBeyond ==
    /\ ~panicked
    /\ ~SlWentBeyond
    /\ \E r \in (sl.len + 1)..(sl.len + MaxOver) : \E l \in 0..(r - 1) : \E f \in InActs :
          LET c == Sl_range_update(sl, l, r, f)
          IN  /\ sl' = c.t
              /\ panicked' = c.panic
              /\ arr' = IF c.panic THEN arr ELSE MapRange(arr, l, sl.len, f)
    /\ last_op' = "range_update_beyond"
    /\ OnlySl

NextSl == SlPointUpdate \/ SlRangeUpdate \/ SlPointQuery \/ SlRangeQuery

SpecSl == InitSl /\ [][NextSl]_vars

NextSlAny ==
    \/ ~SlWentBeyond /\ NextSl
    \/ SlRangeQueryBeyond
    \/ SlRangeUpdateBeyond

SpecSlAny == InitSl /\ [][NextSlAny]_vars

(***************************************************************************)
(* Specification SpecSlIter: LazySegmentTree built by from_iter from an    *)
(* iterator whose size_hint is exact or a lower bound below the number of  *)
(* items it yields, then in-bounds calls.                                  *)
(***************************************************************************)
InitSlIter ==
    /\ \E n \in 1..MaxLen : \E values \in Arrays(n) :
       \E exact \in BOOLEAN : \E min \in 0..n :
          /\ exact <=> (min = n)
          /\ sl = Sl_from_iter(values, min, exact)
          /\ arr = values
    /\ seg = Unused /\ lz = Unused /\ asg = Unused /\ dyn = Unused
    /\ dual = Unused /\ sn = Unused
    /\ last_op = "from_iter"
    /\ panicked = FALSE
    /\ run = Unused
    /\ rq = Unused

SpecSlIter == InitSlIter /\ [][NextSl]_vars

\* C24: a tree built by from_iter from an iterator that yields k >= 1 items,
\* with an exact size_hint or with a lower bound smaller than k, has
\* len() = k and point_query(i) returns the i-th item for every i < k.
C24_FromIterKeepsItems ==
    last_op = "from_iter" =>
        /\ Sl_len(sl) = SliceLen(arr)
        /\ \A i \in 0..(SliceLen(arr) - 1) :
              LET c == Sl_point_query(sl, i)
              IN  ~c.panic /\ c.ret = arr[i]

\* C6: after from(values) and any sequence of in-bounds point_update,
\* range_update, point_query and range_query calls, no call has panicked and
\* every point_query and range_query returns what the plain array gives
\* (range_update maps the act over the range, range_query folds left to
\* right).
C6_SlRefinesArray ==
    /\ ~panicked
    /\ \A i \in 0..(sl.len - 1) :
          LET c == Sl_point_query(sl, i)
          IN  ~c.panic /\ c.ret = arr[i]
    /\ \A l \in 0..sl.len : \A r \in l..sl.len :
          LET c == Sl_range_query(sl, l, r)
          IN  ~c.panic /\ c.ret = Fold(arr, l, r)

\* C6 is reached: on a tree of four elements (a power of two) a range_update
\* has left an act pending on node 3, and the query of 1..4, whose upper end
\* is n, folds the array.
C6_Witness ==
    /\ last_op = "range_update"
    /\ sl.len = 4
    /\ sl.lazy[3] # act_identity
    /\ arr = Slice(<< <<1>>, <<0>>, <<1>>, <<1>> >>)
    /\ Sl_range_query(sl, 1, 4).ret = <<0, 1, 1>>

\* C8: a range_query or a range_update on a non-empty range whose exclusive
\* upper end exceeds len panics: after such a call the program has panicked.
C8_BeyondLenPanics ==
    last_op \in {"range_query_beyond", "range_update_beyond"} => panicked

(***************************************************************************)
(* crates/seg_lib/src/normal.rs : SegmentTree                              *)
(*                                                                         *)
(* sn = [data]: 2n slots, the leaves at n..2n-1.                           *)
(***************************************************************************)
\* SegmentTree::new
Sn_new(n) == [data |-> [i \in 0..(Shl(n, 1) - 1) |-> identity]]

\* from: for i in (1..data.len() / 2).rev() { data[i] = data[2i] * data[2i+1] }
Sn_from_loop(data0) ==
    LET half == SliceLen(data0) \div 2
        F[i \in 0..half] ==
            IF i = 0 THEN data0
            ELSE LET k == half - i
                     d == F[i - 1]
                 IN  IF k < 1 THEN d
                     ELSE [d EXCEPT ![k] = binary_operation(d[2 * k], d[2 * k + 1])]
    IN  F[half]

\* impl From<Vec<T>> for SegmentTree<T>
Sn_from(elements) ==
    LET n == SliceLen(elements)
    IN  [data |-> Sn_from_loop([i \in 0..(2 * n - 1) |->
                                   IF i < n THEN identity ELSE elements[i - n]])]

\* SegmentTree::inner_index
Sn_inner_index(t, i) == (SliceLen(t.data) \div 2) + i

\* SegmentTree::point_query
Sn_point_query(t, i) ==
    LET ii == Sn_inner_index(t, i)
    IN  IF ii \notin DOMAIN t.data THEN Panic(t) ELSE Done(t, t.data[ii])

RECURSIVE Sn_range_query_loop_commutative(_, _, _, _, _)
\* the loop of range_query with the right accumulator combined as if the
\* operation were commutative (res_r * data[r])
Sn_range_query_loop_commutative(t, l, r, res_l, res_r) ==
    IF l >= r
    THEN IF l \notin DOMAIN t.data THEN Panic(t)
         ELSE LET l1 == Shr(l + 1, trailing_zeros(l + 1))
                  x  == binary_operation(res_l, t.data[l])
              IN  IF l1 = r THEN Done(t, binary_operation(x, res_r))
                  ELSE Sn_range_query_loop_commutative(t, l1, r, x, res_r)
    ELSE IF (r - 1) \notin DOMAIN t.data THEN Panic(t)
         ELSE LET r1 == Shr(r - 1, trailing_zeros(r - 1))
                  x  == binary_operation(res_r, t.data[r - 1])
              IN  IF l = r1 THEN Done(t, binary_operation(res_l, x))
                  ELSE Sn_range_query_loop_commutative(t, l, r1, res_l, x)

RECURSIVE Sn_range_query_loop(_, _, _, _, _)
\* range_query: loop { .. if l == r { break } }; res_l * res_r
Sn_range_query_loop(t, l, r, res_l, res_r) ==
    IF l >= r
    THEN IF l \notin DOMAIN t.data THEN Panic(t)
         ELSE LET l1 == Shr(l + 1, trailing_zeros(l + 1))
                  x  == binary_operation(res_l, t.data[l])
              IN  IF l1 = r THEN Done(t, binary_operation(x, res_r))
                  ELSE Sn_range_query_loop(t, l1, r, x, res_r)
    ELSE IF (r - 1) \notin DOMAIN t.data THEN Panic(t)
         ELSE LET r1 == Shr(r - 1, trailing_zeros(r - 1))
                  x  == binary_operation(t.data[r - 1], res_r)
              IN  IF l = r1 THEN Done(t, binary_operation(res_l, x))
                  ELSE Sn_range_query_loop(t, l, r1, res_l, x)

\* SegmentTree::range_query(lo..hi)
Sn_range_query(t, lo, hi) ==
    LET l == Sn_inner_index(t, lo)
        r == Sn_inner_index(t, hi)
    IN  IF l >= r THEN Done(t, identity)
        ELSE Sn_range_query_loop(t, Shr(l, trailing_zeros(l)),
                                 Shr(r, trailing_zeros(r)), identity, identity)

RECURSIVE Sn_point_update_loop(_, _)
\* point_update: while i > 1 { i >>= 1; data[i] = data[2i] * data[2i+1] }
Sn_point_update_loop(t, i) ==
    IF i > 1
    THEN LET p == Shr(i, 1)
         IN  IF (p * 2 + 1) \notin DOMAIN t.data THEN Aborted
             ELSE Sn_point_update_loop(
                     [t EXCEPT !.data[p] =
                         binary_operation(t.data[p * 2], t.data[p * 2 + 1])], p)
    ELSE t

\* SegmentTree::point_update: returns the element replaced
Sn_point_update(t, i, element) ==
    LET ii == Sn_inner_index(t, i)
    IN  IF ii \notin DOMAIN t.data THEN Panic(t)
        ELSE LET t1 == Sn_point_update_loop([t EXCEPT !.data[ii] = element], ii)
             IN  IF IsAborted(t1) THEN Panic(t) ELSE Done(t1, t.data[ii])

\* SegmentTree::into_vec: data.into_vec().split_off(data.len() >> 1)
Sn_into_vec(t) ==
    LET n == Shr(SliceLen(t.data), 1)
    IN  Done(t, [k \in 0..(SliceLen(t.data) - n - 1) |-> t.data[n + k]])

(***************************************************************************)
(* Specification SpecSn: seg_lib SegmentTree built from a Vec, then        *)
(* point_update and range_query calls, in bounds or with an upper end      *)
(* beyond the number of elements.                                          *)
(***************************************************************************)
\* the largest seg_lib SegmentTree built
MaxLenSn == 6

InitSn ==
    /\ \E n \in 1..MaxLenSn : \E values \in Arrays(n) :
          /\ sn = Sn_from(values)
          /\ arr = values
    /\ seg = Unused /\ lz = Unused /\ asg = Unused /\ dyn = Unused
    /\ dual = Unused /\ sl = Unused
    /\ last_op = "from"
    /\ panicked = FALSE
    /\ run = Unused
    /\ rq = Unused

OnlySn == UNCHANGED <<seg, lz, asg, dyn, dual, sl, run, rq>>

SnPointUpdate ==
    /\ ~panicked
    /\ \E i \in 0..(SliceLen(arr) - 1) : \E v \in Elems :
          LET c == Sn_point_update(sn, i, v)
          IN  /\ sn' = c.t
              /\ panicked' = c.panic
              /\ arr' = [arr EXCEPT ![i] = v]
    /\ last_op' = "point_update"
    /\ OnlySn

SnRangeQuery ==
    /\ ~panicked
    /\ \E l \in 0..SliceLen(arr) : \E r \in l..SliceLen(arr) :
          LET c == Sn_range_query(sn, l, r)
          IN  /\ sn' = c.t
              /\ panicked' = c.panic
    /\ last_op' = "range_query"
    /\ UNCHANGED arr
    /\ OnlySn

\* range_query(l..r) with l < r and r beyond the number of elements
SnRangeQueryBeyond ==
    /\ ~panicked
    /\ \E r \in (SliceLen(arr) + 1)..(SliceLen(arr) + MaxOver) : \E l \in 0..(r - 1) :
          LET c == Sn_range_query(sn, l, r)
          IN  /\ sn' = c.t
              /\ panicked' = c.panic
    /\ last_op' = "range_query_beyond"
    /\ UNCHANGED arr
    /\ OnlySn

NextSn == SnPointUpdate \/ SnRangeQuery

SpecSn == InitSn /\ [][NextSn]_vars

NextSnAny == NextSn \/ SnRangeQueryBeyond

SpecSnAny == InitSn /\ [][NextSnAny]_vars

\* C25: for every n >= 1, a power of two or not, after from and any
\* sequence of point_update calls, range_query(l..r) with 0 <= l < r <= n
\* returns without panic the left-to-right combination of elements l..r-1
\* of the plain array, the operation being non-commutative.
C25_RangeQueryRefinesArray ==
    \A l \in 0..(SliceLen(arr) - 1) : \A r \in (l + 1)..SliceLen(arr) :
        LET c == Sn_range_query(sn, l, r)
        IN  ~c.panic /\ c.ret = Fold(arr, l, r)

\* C25 is reached: a tree of three elements (six slots, the leaves at 3..5)
\* holds [1, 0, 1] after a point_update; node 1 holds the leaves out of
\* order, and range_query(0..3) still returns 1 0 1.
C25_Witness ==
    /\ last_op = "point_update"
    /\ SliceLen(sn.data) = 6
    /\ arr = Slice(<< <<1>>, <<0>>, <<1>> >>)
    /\ sn.data[1] = <<0, 1, 1>>
    /\ Sn_range_query(sn, 0, 3).ret = <<1, 0, 1>>
    /\ Sn_range_query(sn, 1, 3).ret = <<0, 1>>

(***************************************************************************)
(* Specification SpecSegAny: SegmentTree (segment_tree/src/normal.rs)      *)
(* built by from or new for any length, 0 included, then update and query  *)
(* calls, in bounds or beyond len.                                         *)
(***************************************************************************)
InitSegAny ==
    /\ \E n \in 0..MaxLen :
          \/ \E values \in Arrays(n) :
                /\ seg = Seg_from(values)
                /\ arr = values
                /\ last_op = "from"
          \/ /\ seg = Seg_new(n)
             /\ arr = [i \in 0..(n - 1) |-> identity]
             /\ last_op = "new"
    /\ lz = Unused /\ asg = Unused /\ dyn = Unused /\ dual = Unused
    /\ sl = Unused /\ sn = Unused
    /\ panicked = FALSE
    /\ run = Unused
    /\ rq = Unused

\* update(i, v) with i >= len
SegUpdateBeyond ==
    /\ ~panicked
    /\ \E i \in seg.len..(seg.len + MaxOver) : \E v \in Elems :
          LET c == Seg_update(seg, i, v)
          IN  /\ seg' = c.t
              /\ panicked' = c.panic
    /\ last_op' = "update_beyond"
    /\ UNCHANGED arr
    /\ OnlySeg

\* query(l..r) with l < r and r > len
SegQueryBeyond ==
    /\ ~panicked
    /\ \E r \in (seg.len + 1)..(seg.len + MaxOver) : \E l \in 0..(r - 1) :
          LET c == Seg_query(seg, l, r)
          IN  /\ seg' = c.t
              /\ panicked' = c.panic
    /\ last_op' = "query_beyond"
    /\ UNCHANGED arr
    /\ OnlySeg

NextSegAny == SegUpdate \/ SegQuery \/ SegUpdateBeyond \/ SegQueryBeyond

SpecSegAny == InitSegAny /\ [][NextSegAny]_vars

\* C7: update(i, v) with i >= len and query(l..r) with r > len panic: after
\* such a call the program has panicked.
C7_BeyondLenPanics ==
    last_op \in {"update_beyond", "query_beyond"} => panicked

\* C9: on every tree from or new returns, the empty tree included, and as
\* long as no call has panicked, query(i..i) returns the identity without
\* panicking for every i in 0..=len.
C9_EmptyRangeIsIdentity ==
    ~panicked =>
        \A i \in 0..seg.len :
            LET c == Seg_query(seg, i, i)
            IN  ~c.panic /\ c.ret = identity

\* C10: after range_update and point_update calls on a DualSegmentTree,
\* into_vec returns exactly len() elements, equal to the plain array element
\* for element.
C10_IntoVecIsArray ==
    last_op \in {"range_update", "point_update"} =>
        LET c == Dual_into_vec(dual)
        IN  /\ SliceLen(c.ret) = Dual_len(dual)
            /\ \A i \in 0..(Dual_len(dual) - 1) : c.ret[i] = arr[i]

(***************************************************************************)
(* src/range_query/segment_tree.rs : SegmentTree with boxed closures       *)
(*                                                                         *)
(* rq = [data, offset]; op is the monoid's operation and id its identity.  *)
(***************************************************************************)
RECURSIVE Rq_from_vec_loop(_, _)
\* for i in (1..offset).rev() { data[i] = op(&data[i * 2], &data[i * 2 + 1]) }
Rq_from_vec_loop(data, i) ==
    IF i < 1 THEN data
    ELSE Rq_from_vec_loop(
            [data EXCEPT ![i] = binary_operation(data[i * 2], data[i * 2 + 1])], i - 1)

\* SegmentTree::from_vec(data, op, id)
Rq_from_vec(values) ==
    LET offset == SliceLen(values)
        data0 == [i \in 0..(2 * offset - 1) |->
                     IF i < offset THEN identity ELSE values[i - offset]]
    IN  [data |-> Rq_from_vec_loop(data0, offset - 1), offset |-> offset]

RECURSIVE Rq_update_loop(_, _)
\* while i > 2 { i >>= 1; data[i] = op(&data[i * 2], &data[i * 2 + 1]) }
Rq_update_loop(t, i) ==
    IF i > 2
    THEN LET p == Shr(i, 1)
         IN  Rq_update_loop(
                [t EXCEPT !.data[p] = binary_operation(t.data[p * 2], t.data[p * 2 + 1])], p)
    ELSE t

\* SegmentTree::update(i, value)
Rq_update(t, i, value) ==
    LET ii == i + t.offset
    IN  IF ii \notin DOMAIN t.data THEN Panic(t)
        ELSE Done(Rq_update_loop([t EXCEPT !.data[ii] = value], ii), Unit)

RECURSIVE Rq_query_loop(_, _, _, _, _)
\* while r > l { .. }; op(&res_l, &res_r)
Rq_query_loop(t, l, r, res_l, res_r) ==
    IF r > l
    THEN LET res_l1 == IF l % 2 = 1 THEN binary_operation(res_l, t.data[l]) ELSE res_l
             l1 == IF l % 2 = 1 THEN l + 1 ELSE l
             r1 == IF r % 2 = 1 THEN r - 1 ELSE r
             res_r1 == IF r % 2 = 1 THEN binary_operation(res_r, t.data[r1]) ELSE res_r
         IN  Rq_query_loop(t, Shr(l1, 1), Shr(r1, 1), res_l1, res_r1)
    ELSE binary_operation(res_l, res_r)

\* SegmentTree::query(start..end)
Rq_query(t, start, end) ==
    Done(t, Rq_query_loop(t, start + t.offset, end + t.offset, identity, identity))

(***************************************************************************)
(* Specification SpecRq: the closure-based SegmentTree built by from_vec   *)
(* from 1..MaxLen values, then update(i, v) with i < n and query(l..r)     *)
(* with l <= r <= n.                                                       *)
(***************************************************************************)
InitRq ==
    /\ \E n \in 1..MaxLen : \E values \in Arrays(n) :
          /\ rq = Rq_from_vec(values)
          /\ arr = values
    /\ seg = Unused /\ lz = Unused /\ asg = Unused /\ dyn = Unused /\ dual = Unused
    /\ sl = Unused /\ sn = Unused
    /\ last_op = "from_vec"
    /\ panicked = FALSE
    /\ run = Unused

OnlyRq == UNCHANGED <<seg, lz, asg, dyn, dual, sl, sn, panicked, run>>

RqUpdate ==
    /\ \E i \in 0..(rq.offset - 1) : \E v \in Elems :
          /\ rq' = Rq_update(rq, i, v).t
          /\ arr' = [arr EXCEPT ![i] = v]
    /\ last_op' = "update"
    /\ OnlyRq

RqQuery ==
    /\ \E l \in 0..rq.offset : \E r \in l..rq.offset : rq' = Rq_query(rq, l, r).t
    /\ last_op' = "query"
    /\ UNCHANGED arr
    /\ OnlyRq

NextRq == RqUpdate \/ RqQuery

SpecRq == InitRq /\ [][NextRq]_vars

\* C27: for a tree built by from_vec from n >= 1 values and any sequence of
\* update(i, v) calls with i < n, every query(l..r) with l <= r <= n returns
\* the left-to-right combination of the current elements l..r-1 of the plain
\* array that received the same updates.
C27_QueryRefinesArray ==
    \A l \in 0..rq.offset : \A r \in l..rq.offset :
        Rq_query(rq, l, r).ret = Fold(arr, l, r)

\* C27 for the trees of two elements, where every query takes at most one
\* node on its right: the root is not recomputed by update
C27_QueryRefinesArrayOfTwo ==
    rq.offset = 2 => C27_QueryRefinesArray

(***************************************************************************)
(* Specification SpecPoint: one of the three trees with a point overwrite  *)
(* that returns the previous value (DualSegmentTree, AssignSegmentTree,    *)
(* seg_lib SegmentTree), then the in-bounds calls of that tree.            *)
(***************************************************************************)
\* the structure is the one this behaviour is about
InUse(t) == DOMAIN t # {}

InitPoint == InitDual \/ InitAssign \/ InitSn

NextPoint ==
    \/ InUse(dual) /\ (DualRangeUpdate \/ DualPointUpdate \/ DualPointQuery)
    \/ InUse(asg) /\ NextAssign
    \/ InUse(sn) /\ NextSn

SpecPoint == InitPoint /\ [][NextPoint]_vars

InitPropagate == InitLazySmall \/ InitDual

NextPropagate ==
    \/ InUse(lz) /\ NextLazy
    \/ InUse(dual) /\ NextDualRange

SpecPropagate == InitPropagate /\ [][NextPropagate]_vars

\* every strict ancestor (index >= 1) of node x of a LazySegmentTree holds
\* the identity act
Lazy_clean_above(t, x) ==
    \A d \in 1..t.height : Shr(x, d) >= 1 => t.lazy[Shr(x, d)] = act_identity

RECURSIVE Lazy_apply_loop_clean(_, _, _, _)
\* the while loop of apply: every node given the new act is clean above
Lazy_apply_loop_clean(t, l, r, action) ==
    IF l < r
    THEN LET t1 == IF l % 2 = 1 THEN Lazy_apply_action(t, l, action) ELSE t
             l1 == IF l % 2 = 1 THEN l + 1 ELSE l
             r1 == IF r % 2 = 1 THEN r - 1 ELSE r
             t2 == IF r % 2 = 1 THEN Lazy_apply_action(t1, r1, action) ELSE t1
         IN  /\ l % 2 = 1 => Lazy_clean_above(t, l)
             /\ r % 2 = 1 => Lazy_clean_above(t1, r1)
             /\ Lazy_apply_loop_clean(t2, l1 \div 2, r1 \div 2, action)
    ELSE TRUE

RECURSIVE Lazy_apply_update_clean(_, _, _, _)
\* the last loop of apply: every node recomputed from its children is clean
\* above
Lazy_apply_update_clean(t, l, r, d) ==
    IF d > t.height THEN TRUE
    ELSE LET t1 == IF Shl(Shr(l, d), d) # l
                   THEN Lazy_update_node(t, Shr(l, d)) ELSE t
             t2 == IF Shl(Shr(r, d), d) # r
                   THEN Lazy_update_node(t1, Shr(r - 1, d)) ELSE t1
         IN  /\ Shl(Shr(l, d), d) # l => Lazy_clean_above(t, Shr(l, d))
             /\ Shl(Shr(r, d), d) # r => Lazy_clean_above(t1, Shr(r - 1, d))
             /\ Lazy_apply_update_clean(t2, l, r, d + 1)

\* apply(lo..hi, action) accesses no node below a pending act
Lazy_apply_clean(t, lo, hi, action) ==
    LET l == Lazy_inner_index(t, lo)
        r == Lazy_inner_index(t, hi)
        t1 == Lazy_apply_propagate(t, l, r, t.height)
        t2 == Lazy_apply_loop(t1, l, r, action)
    IN  /\ Lazy_apply_loop_clean(t1, l, r, action)
        /\ Lazy_apply_update_clean(t2, l, r, 1)

RECURSIVE Lazy_eval_loop_clean(_, _, _)
\* the while loop of eval: every node read for the result is clean above
Lazy_eval_loop_clean(t, l, r) ==
    IF l < r
    THEN LET l1 == IF l % 2 = 1 THEN l + 1 ELSE l
             r1 == IF r % 2 = 1 THEN r - 1 ELSE r
         IN  /\ l % 2 = 1 => Lazy_clean_above(t, l)
             /\ r % 2 = 1 => Lazy_clean_above(t, r1)
             /\ Lazy_eval_loop_clean(t, l1 \div 2, r1 \div 2)
    ELSE TRUE

\* eval(lo..hi) reads no node below a pending act
Lazy_eval_clean(t, lo, hi) ==
    LET l == Lazy_inner_index(t, lo)
        r == Lazy_inner_index(t, hi)
    IN  l < r => Lazy_eval_loop_clean(Lazy_eval_propagate(t, l, r, t.height), l, r)

\* every strict ancestor (index >= 1) of node x of a DualSegmentTree holds
\* the identity element
Dual_clean_above(t, x) ==
    \A d \in 1..(trailing_zeros(t.buf_len) + 1) :
        Shr(x, d) >= 1 => t.lazy[Shr(x, d)] = Dual_identity

RECURSIVE Dual_range_update_loop_clean(_, _, _, _)
\* the while loop of range_update: every node given the new element is
\* clean above
Dual_range_update_loop_clean(t, l, r, elem) ==
    IF l < r
    THEN LET t1 == IF l % 2 = 1
                   THEN [t EXCEPT !.lazy[l] = Dual_binary_operation(elem, t.lazy[l])] ELSE t
             l1 == IF l % 2 = 1 THEN l + 1 ELSE l
             r1 == IF r % 2 = 1 THEN r - 1 ELSE r
             t2 == IF r % 2 = 1
                   THEN [t1 EXCEPT !.lazy[r1] = Dual_binary_operation(elem, t1.lazy[r1])] ELSE t1
         IN  /\ l % 2 = 1 => Dual_clean_above(t, l)
             /\ r % 2 = 1 => Dual_clean_above(t1, r1)
             /\ Dual_range_update_loop_clean(t2, Shr(l1, 1), Shr(r1, 1), elem)
    ELSE TRUE

\* range_update(lo..hi, elem) stores below no pending element
Dual_range_update_clean(t, lo, hi, elem) ==
    LET l == Dual_inner_index(t, lo)
        r == Dual_inner_index(t, hi)
    IN  (l < r /\ ~t.is_commutative) =>
            Dual_range_update_loop_clean(
                Dual_range_update_propagate(t, l, r, trailing_zeros(t.buf_len)),
                l, r, elem)

\* C21: in apply and eval of the LazySegmentTree and in range_update of the
\* DualSegmentTree with IS_COMMUTATIVE = false, whenever a node is read for
\* the result, recomputed from its children or given the new act, every
\* strict ancestor of it with index >= 1 holds the identity: the ancestors
\* were propagated before.
C21_AncestorsCleanAtAccess ==
    /\ InUse(lz) =>
          /\ \A l \in 0..lz.len : \A r \in l..lz.len : \A f \in InActs :
                Lazy_apply_clean(lz, l, r, f)
          /\ \A l \in 0..lz.len : \A r \in l..lz.len : Lazy_eval_clean(lz, l, r)
    /\ InUse(dual) =>
          \A l \in 0..dual.len : \A r \in l..dual.len : \A e \in Dual_elems(dual) :
              Dual_range_update_clean(dual, l, r, e)

\* C21 is reached: an apply over 0..2 has just left its act pending on node
\* 2 of a LazySegmentTree of three elements; an apply over 1..2 then gives its
\* act to leaf 5 below node 2, which it has propagated first.
C21_Witness ==
    /\ InUse(lz)
    /\ last_op = "apply"
    /\ lz.len = 3
    /\ lz.lazy[2] # act_identity
    /\ LET l == Lazy_inner_index(lz, 1)
           r == Lazy_inner_index(lz, 2)
           t1 == Lazy_apply_propagate(lz, l, r, lz.height)
       IN  /\ t1.lazy[2] = act_identity
           /\ Lazy_clean_above(t1, 5)
           /\ Lazy_apply(lz, 1, 2, <<0, 1>>).t.data[5] = <<1>>

RECURSIVE Dual_stored_nodes(_, _)
\* the nodes on which the while loop of range_update stores the new element
Dual_stored_nodes(l, r) ==
    IF l < r
    THEN LET l1 == IF l % 2 = 1 THEN l + 1 ELSE l
             r1 == IF r % 2 = 1 THEN r - 1 ELSE r
         IN  (IF l % 2 = 1 THEN {l} ELSE {}) \cup (IF r % 2 = 1 THEN {r1} ELSE {})
                 \cup Dual_stored_nodes(Shr(l1, 1), Shr(r1, 1))
    ELSE {}

\* the tree at the moment range_update(lo..hi, elem) enters its while loop
Dual_before_store(t, lo, hi) ==
    LET l == Dual_inner_index(t, lo)
        r == Dual_inner_index(t, hi)
    IN  IF ~t.is_commutative
        THEN Dual_range_update_propagate(t, l, r, trailing_zeros(t.buf_len))
        ELSE t

\* C22 as stated: with IS_COMMUTATIVE = false, an internal node on which
\* range_update stores the new element holds the identity at that moment,
\* its own pending element having been pushed down to its children.
C22_SlotIdentityAtStore ==
    \A lo \in 0..dual.len : \A hi \in (lo + 1)..dual.len :
        LET t1 == Dual_before_store(dual, lo, hi)
        IN  \A x \in Dual_stored_nodes(Dual_inner_index(dual, lo),
                                       Dual_inner_index(dual, hi)) :
                x < dual.buf_len => t1.lazy[x] = Dual_identity

\* C22 amended: with IS_COMMUTATIVE = false, when range_update stores the
\* new element on an internal node, the strict ancestors of the node have
\* been propagated, but the node's own pending element is not pushed down:
\* it stays in the slot with the new element composed on its left, and the
\* slots of the node's children are left as they were.
C22_StoreComposesOntoPending ==
    \A lo \in 0..dual.len : \A hi \in (lo + 1)..dual.len : \A e \in Dual_elems(dual) :
        LET t1 == Dual_before_store(dual, lo, hi)
            t2 == Dual_range_update(dual, lo, hi, e).t
        IN  \A x \in Dual_stored_nodes(Dual_inner_index(dual, lo),
                                       Dual_inner_index(dual, hi)) :
                x < dual.buf_len =>
                    /\ Dual_clean_above(t1, x)
                    /\ t2.lazy[x] = Dual_binary_operation(e, t1.lazy[x])
                    /\ t2.lazy[2 * x] = t1.lazy[2 * x]
                    /\ (2 * x + 1) \in DOMAIN t1.lazy =>
                          t2.lazy[2 * x + 1] = t1.lazy[2 * x + 1]

\* C22 is reached: the element x |-> x + 1 is pending on node 2 of a tree of
\* three elements after a range_update over 0..2; a second range_update over
\* 0..2 with x |-> 1 stores on node 2 again and leaves x |-> 1 composed with
\* x |-> x + 1 there, the leaves 4 and 5 untouched.
C22_Witness ==
    /\ last_op = "range_update"
    /\ dual.len = 3
    /\ dual.lazy[2] = <<1, 1, 0>>
    /\ 2 \in Dual_stored_nodes(Dual_inner_index(dual, 0), Dual_inner_index(dual, 2))
    /\ Dual_before_store(dual, 0, 2).lazy[2] = <<1, 1, 0>>
    /\ LET t2 == Dual_range_update(dual, 0, 2, <<0, 1, 0>>).t
       IN  /\ t2.lazy[2] = Dual_binary_operation(<<0, 1, 0>>, <<1, 1, 0>>)
           /\ t2.lazy[4] = dual.lazy[4]
           /\ t2.lazy[5] = dual.lazy[5]

(***************************************************************************)
(* Specification SpecLoops: the loops of the seg_lib trees that advance l  *)
(* or r to the next node by trailing zeros until l == r, one iteration per *)
(* step.  run = [op, pc, l0, r0, l, r, res_l, res_r, act, ret]: the method *)
(* running, whether it is in its loop, past it or has returned, the inner  *)
(* range of the call, the loop's l and r, the accumulators of a query, the *)
(* act of an update and the value returned.  A call that is in its loop    *)
(* keeps running (the code is single-threaded and synchronous): weak       *)
(* fairness of the loop iterations.  Nothing obliges a caller to start a   *)
(* call.                                                                   *)
(***************************************************************************)
\* no call is running and none has run
Returned ==
    [op |-> "none", pc |-> "done", l0 |-> 0, r0 |-> 0, l |-> 0, r |-> 0,
     res_l |-> identity, res_r |-> identity, act |-> act_identity, ret |-> Unit]

\* one iteration of the loop of range_query that forgets l += 1
Sn_range_query_step_stuck(t, c) ==
    IF c.l >= c.r
    THEN [c EXCEPT !.res_l = binary_operation(c.res_l, t.data[c.l]),
                   !.l = Shr(c.l, trailing_zeros(c.l))]
    ELSE [c EXCEPT !.res_r = binary_operation(t.data[c.r - 1], c.res_r),
                   !.r = Shr(c.r - 1, trailing_zeros(c.r - 1))]

\* (seg_lib normal.rs) range_query: one iteration of loop { .. }
Sn_range_query_step(t, c) ==
    IF c.l >= c.r
    THEN [c EXCEPT !.res_l = binary_operation(c.res_l, t.data[c.l]),
                   !.l = Shr(c.l + 1, trailing_zeros(c.l + 1))]
    ELSE [c EXCEPT !.res_r = binary_operation(t.data[c.r - 1], c.res_r),
                   !.r = Shr(c.r - 1, trailing_zeros(c.r - 1))]

\* (seg_lib lazy.rs) range_query: one iteration of while l != r { .. }
Sl_range_query_step(t, c) ==
    IF c.l >= c.r
    THEN [c EXCEPT !.res_l = binary_operation(c.res_l, t.data[c.l]),
                   !.l = Shr(c.l + 1, trailing_zeros(c.l + 1))]
    ELSE [c EXCEPT !.res_r = binary_operation(t.data[c.r - 1], c.res_r),
                   !.r = Shr(c.r - 1, trailing_zeros(c.r - 1))]

\* (seg_lib lazy.rs) range_update: one iteration of while l != r { .. }
Sl_range_update_step(t, c) ==
    IF c.l >= c.r
    THEN [t |-> Sl_push(t, c.l, c.act),
          c |-> [c EXCEPT !.l = Shr(c.l + 1, trailing_zeros(c.l + 1))]]
    ELSE [t |-> Sl_push(t, c.r - 1, c.act),
          c |-> [c EXCEPT !.r = Shr(c.r - 1, trailing_zeros(c.r - 1))]]

\* the largest trees built from values in SpecLoops; the larger ones, up to
\* MaxLenSn elements, are built by new and are given the identity act only,
\* which leaves them as they are: the loops do not depend on the elements
MaxLenLoops == 3

InitLoops ==
    /\ \/ \E n \in 1..MaxLenLoops : \E values \in Arrays(n) :
             /\ \/ sn = Sn_from(values) /\ sl = Unused
                \/ sl = Sl_from(values) /\ sn = Unused
             /\ arr = values
       \/ \E n \in (MaxLenLoops + 1)..MaxLenSn :
             /\ \/ sn = Sn_new(n) /\ sl = Unused
                \/ sl = Sl_new(n) /\ sn = Unused
             /\ arr = [i \in 0..(n - 1) |-> identity]
    /\ seg = Unused /\ lz = Unused /\ asg = Unused /\ dyn = Unused /\ dual = Unused
    /\ last_op = "from"
    /\ panicked = FALSE
    /\ run = Returned
    /\ rq = Unused

\* the acts given to range_update in SpecLoops
LoopActs(t) == IF t.len <= MaxLenLoops THEN InActs ELSE {act_identity}

\* the call has returned ret
Return(c, ret) == [c EXCEPT !.pc = "done", !.l = 0, !.r = 0, !.res_l = identity,
                            !.res_r = identity, !.ret = ret]

\* the structures no step of SpecLoops touches
OnlyLoops == UNCHANGED <<seg, lz, asg, dyn, dual, rq, panicked>>

\* seg_lib SegmentTree::range_query(lo..hi), up to the loop
SnRangeQueryStart ==
    /\ InUse(sn) /\ run.pc = "done"
    /\ \E lo \in 0..(SliceLen(arr) - 1) : \E hi \in (lo + 1)..SliceLen(arr) :
          LET l == Sn_inner_index(sn, lo)
              r == Sn_inner_index(sn, hi)
          IN  run' = [Returned EXCEPT !.op = "sn_range_query", !.pc = "loop",
                                      !.l0 = l, !.r0 = r,
                                      !.l = Shr(l, trailing_zeros(l)),
                                      !.r = Shr(r, trailing_zeros(r))]
    /\ last_op' = "range_query"
    /\ UNCHANGED <<sn, sl, arr>>
    /\ OnlyLoops

\* seg_lib SegmentTree::range_query: one iteration, then if l == r { break }
SnRangeQueryStep ==
    /\ InUse(sn) /\ run.op = "sn_range_query" /\ run.pc = "loop"
    /\ LET c == Sn_range_query_step(sn, run)
       IN  run' = IF c.l = c.r
                  THEN Return(c, binary_operation(c.res_l, c.res_r))
                  ELSE c
    /\ UNCHANGED <<sn, sl, arr, last_op>>
    /\ OnlyLoops

\* seg_lib LazySegmentTree::range_query(lo..hi), up to the loop; a range of
\* one element and a range that is one node return without entering it
SlRangeQueryStart ==
    /\ InUse(sl) /\ run.pc = "done"
    /\ \E lo \in 0..(sl.len - 1) : \E hi \in (lo + 1)..sl.len :
          LET l == Sl_inner_index(sl, lo)
              r == Sl_inner_index(sl, hi)
              c == [Returned EXCEPT !.op = "sl_range_query", !.l0 = l, !.r0 = r]
          IN  IF l + 1 = r
              THEN LET q == Sl_point_query(sl, l - SliceLen(sl.lazy))
                   IN  sl' = q.t /\ run' = Return(c, q.ret)
              ELSE LET common == ilog2(BitXor(l, r))
                       t1 == Sl_range_query_above(sl, l, r, sl.lazy_height, common)
                       t2 == Sl_range_query_below(t1, l, r, common)
                       l1 == Shr(l, trailing_zeros(l))
                       r1 == Shr(r, trailing_zeros(r))
                   IN  /\ sl' = t2
                       /\ run' = IF l1 = r1 THEN Return(c, t2.data[l1])
                                 ELSE [c EXCEPT !.pc = "loop", !.l = l1, !.r = r1]
    /\ last_op' = "range_query"
    /\ UNCHANGED <<sn, arr>>
    /\ OnlyLoops

\* seg_lib LazySegmentTree::range_query: one iteration of the while loop
SlRangeQueryStep ==
    /\ InUse(sl) /\ run.op = "sl_range_query" /\ run.pc = "loop"
    /\ LET c == Sl_range_query_step(sl, run)
       IN  run' = IF c.l = c.r
                  THEN Return(c, binary_operation(c.res_l, c.res_r))
                  ELSE c
    /\ UNCHANGED <<sn, sl, arr, last_op>>
    /\ OnlyLoops

\* seg_lib LazySegmentTree::range_update(lo..hi, act), up to the loop; a
\* range of one element and a range that is one node return without
\* entering it
SlRangeUpdateStart ==
    /\ InUse(sl) /\ run.pc = "done"
    /\ \E lo \in 0..(sl.len - 1) : \E hi \in (lo + 1)..sl.len : \E act \in LoopActs(sl) :
          LET l == Sl_inner_index(sl, lo)
              r == Sl_inner_index(sl, hi)
              c == [Returned EXCEPT !.op = "sl_range_update", !.l0 = l, !.r0 = r]
          IN  /\ arr' = MapRange(arr, lo, hi, act)
              /\ IF l + 1 = r
                 THEN /\ sl' = Sl_point_update(sl, l - SliceLen(sl.lazy), act).t
                      /\ run' = c
                 ELSE LET common == ilog2(BitXor(l, r - 1))
                          t1 == Sl_range_update_above(sl, l, r, sl.lazy_height, common)
                          t2 == Sl_range_update_below(t1, l, r, common)
                          l1 == Shr(l, trailing_zeros(l))
                          r1 == Shr(r, trailing_zeros(r))
                      IN  IF l1 = r1
                          THEN /\ sl' = Sl_range_update_parents(Sl_push(t2, l1, act), l, r, 1)
                               /\ run' = c
                          ELSE /\ sl' = t2
                               /\ run' = [c EXCEPT !.pc = "loop", !.l = l1, !.r = r1,
                                                   !.act = act]
    /\ last_op' = "range_update"
    /\ UNCHANGED sn
    /\ OnlyLoops

\* seg_lib LazySegmentTree::range_update: one iteration of the while loop
SlRangeUpdateStep ==
    /\ InUse(sl) /\ run.op = "sl_range_update" /\ run.pc = "loop"
    /\ LET s == Sl_range_update_step(sl, run)
       IN  /\ sl' = s.t
           /\ run' = IF s.c.l = s.c.r THEN [s.c EXCEPT !.pc = "parents"] ELSE s.c
    /\ UNCHANGED <<sn, arr, last_op>>
    /\ OnlyLoops

\* seg_lib LazySegmentTree::range_update after its while loop: the parents
\* of the modified nodes are updated and the call returns
SlRangeUpdateFinish ==
    /\ InUse(sl) /\ run.op = "sl_range_update" /\ run.pc = "parents"
    /\ sl' = Sl_range_update_parents(sl, run.l0, run.r0, 1)
    /\ run' = [Return(run, Unit) EXCEPT !.act = act_identity]
    /\ UNCHANGED <<sn, arr, last_op>>
    /\ OnlyLoops

LoopStep == SnRangeQueryStep \/ SlRangeQueryStep \/ SlRangeUpdateStep

NextLoops ==
    \/ SnRangeQueryStart \/ SlRangeQueryStart \/ SlRangeUpdateStart
    \/ LoopStep
    \/ SlRangeUpdateFinish

SpecLoops == InitLoops /\ [][NextLoops]_vars /\ WF_vars(LoopStep)

\* the step-by-step calls return what the calls in one step return
LoopsAgree ==
    run.pc = "done" =>
        /\ run.op = "sn_range_query" =>
              run.ret = Fold(arr, run.l0 - SliceLen(arr), run.r0 - SliceLen(arr))
        /\ run.op = "sl_range_query" =>
              run.ret = Fold(arr, run.l0 - SliceLen(sl.lazy), run.r0 - SliceLen(sl.lazy))
        /\ InUse(sl) => \A i \in 0..(sl.len - 1) : Sl_point_query(sl, i).ret = arr[i]

\* C26: the loops of SegmentTree::range_query, LazySegmentTree::range_query
\* and LazySegmentTree::range_update (seg_lib) that advance l or r until
\* l == r terminate for every tree size and every in-bounds non-empty
\* range: a call that is in its loop eventually leaves it.
C26_LoopsTerminate == (run.pc = "loop") ~> (run.pc # "loop")

\* C26 is reached: range_query(0..3) on a seg_lib SegmentTree of three
\* elements starts with l = r = 3 after the normalisation, has taken the
\* leaf of element 0 in its first iteration and moved l to node 1, and is
\* still in its loop (the next iteration takes node 2 and ends it).
C26_Witness ==
    /\ InUse(sn)
    /\ run.op = "sn_range_query" /\ run.pc = "loop"
    /\ run.l0 = 3 /\ run.r0 = 6
    /\ run.l = 1 /\ run.r = 3
    /\ run.res_l = arr[0]
    /\ Sn_range_query_step(sn, run).l = Sn_range_query_step(sn, run).r

(***************************************************************************)
(* Specification SpecSegFill: SegmentTree built by from, then in-bounds    *)
(* update, fill and query calls.                                           *)
(***************************************************************************)
SegFill ==
    /\ ~panicked
    /\ \E l \in 0..(seg.len - 1) : \E r \in (l + 1)..seg.len : \E v \in Elems :
          LET c == Seg_fill(seg, l, r, v)
          IN  /\ seg' = c.t
              /\ panicked' = c.panic
              /\ arr' = FillRange(arr, l, r, v)
    /\ last_op' = "fill"
    /\ OnlySeg

NextSegFill == SegUpdate \/ SegFill \/ SegQuery

SpecSegFill == InitSeg /\ [][NextSegFill]_vars

\* C28: after fill(l..r, v) with 0 <= l < r <= len every query(a..b) equals
\* the left-to-right combination over the plain array in which the elements
\* l..r-1 were overwritten with v.
C28_FillRefinesArray ==
    InUse(seg) =>
        \A a \in 0..seg.len : \A b \in a..seg.len :
            LET c == Seg_query(seg, a, b)
            IN  ~c.panic /\ c.ret = Fold(arr, a, b)

\* fill itself never panics on an in-bounds range
C28_FillReturns == last_op = "fill" => ~panicked

(***************************************************************************)
(* DynamicSegmentTree: the non-recursive range_query against rec_query     *)
(***************************************************************************)
\* C29: in every reachable tree state and for every range l..r (inside the
\* tree's range, reaching beyond it by up to MaxOver, empty or reversed) the
\* non-recursive range_query returns the value of the recursive reference
\* rec_query(0, l, r, start, end), and leaves the buffer empty.
C29_RangeQueryAgreesWithRec ==
    InUse(dyn) =>
        \A l \in (dyn.start - MaxOver)..(dyn.end + MaxOver) :
            \A r \in (dyn.start - MaxOver)..(dyn.end + MaxOver) :
                LET c == Dyn_range_query(dyn, l, r)
                IN  /\ ~c.panic
                    /\ c.ret = Dyn_rec_query(dyn, 0, l, r, dyn.start, dyn.end)
                    /\ c.t.reusable_buf = << >>

\* C29 is reached: on the range -2..2 all four indices hold a letter, and
\* the query -1..2 is split at the root, the values of -1, 0 and 1 coming
\* from both subtrees; both versions return them in index order.
C29_Witness ==
    /\ InUse(dyn)
    /\ dyn.start = 0 - 2 /\ dyn.end = 2
    /\ SliceLen(dyn.arena) = 4
    /\ arr = Slice(<< <<0>>, <<1>>, <<1>>, <<0>> >>)
    /\ ~Dyn_query_descend(dyn.arena, dyn.reusable_buf, 0, dyn.start, dyn.end,
                          0 - 1, 2).returned
    /\ Dyn_range_query(dyn, 0 - 1, 2).ret = <<1, 1, 0>>
    /\ Dyn_rec_query(dyn, 0, 0 - 1, 2, dyn.start, dyn.end) = <<1, 1, 0>>

(***************************************************************************)
(* AssignSegmentTree: lazy_map against lazy_pow                            *)
(***************************************************************************)
\* C30: after every public operation returns, every slot lazy_map[i] that is
\* not NULL_ID is an index into lazy_pow with 1 <= lazy_map[i] <
\* lazy_pow.len(), and data[i] is the power lazy_pow[lazy_map[i]]; no slot
\* names an entry removed by lazy_pow.clear().
C30_LazyMapNamesLivePower ==
    InUse(asg) =>
        \A i \in DOMAIN asg.lazy_map :
            asg.lazy_map[i] # NULL_ID =>
                /\ 1 <= asg.lazy_map[i]
                /\ asg.lazy_map[i] < SliceLen(asg.lazy_pow)
                /\ asg.data[i] = asg.lazy_pow[asg.lazy_map[i]]

\* C30 is reached: assign(0..2, 1) on three elements has pushed 1, 1 1 and
\* 1 1 1 1 to lazy_pow and left node 2 pending with the id of 1 1.
C30_Witness ==
    /\ InUse(asg)
    /\ last_op = "assign"
    /\ asg.len = 3
    /\ SliceLen(asg.lazy_pow) = 3
    /\ asg.lazy_map[2] = 1
    /\ asg.lazy_pow[1] = <<1, 1>>
    /\ asg.data[2] = <<1, 1>>

====
